---- MODULE Spec2Model ----
(***************************************************************************)
(* AmiBuilder.build of orfmi: the provisioning pipeline (_run_build,       *)
(* _launch_and_configure) and the cleanup that follows it (_cleanup),      *)
(* as one sequential state machine.  Every collaborator call is two steps: *)
(* the invocation and its completion (a return value or a raised error),   *)
(* both recorded in the event log.  Further specifications over the same   *)
(* variables model run_setup_script with connect_ssh (SshSpec),            *)
(* delete_security_group (SgSpec), the other ec2 wrappers (Ec2Spec), the   *)
(* command line with load_config (CliSpec), two builds on one account      *)
(* (TwoBuildsSpec) and the two builder versions side by side (EquivSpec).  *)
(***************************************************************************)
EXTENDS Naturals, Sequences, FiniteSets

\* How many distinct ids of each kind of resource the cloud may hand out.
MaxVals == 2

(***************************************************************************)
(* Python values.  Identifiers are strings; None and "" are the two falsy  *)
(* ones.  Errors are pairs <<exception type, origin>>.                     *)
(***************************************************************************)
None == "None"
Empty == ""
\* Mutant: only None is falsy, the empty string is not.
Falsy_NoneOnly(v) == v = None
Falsy(v) == v = None \/ v = Empty

NoExc == <<>>
ErrTypes == {"RuntimeError", "ClientError"}

\* Identifiers of the resources BuildState records, MaxVals of each in use.
KeyPool == <<"pem-1", "pem-2", "pem-3", "pem-4">>
SgPool == <<"sg-1", "sg-2", "sg-3", "sg-4">>
InstancePool == <<"i-1", "i-2", "i-3", "i-4">>
ImagePool == <<"ami-1", "ami-2", "ami-3", "ami-4">>
Vals(pool) == {pool[k] : k \in 1..MaxVals}

\* What the lookups may answer.
UniqueIds == {"uid-a", "uid-b"}
VpcIds == {"vpc-1", "vpc-2"}
SourceAmiIds == {"ami-src-1", "ami-src-2"}
PublicIps == {"10.0.0.1", "10.0.0.2"}

\* AmiConfig as the builder reads it.
Config ==
    [region |-> "us-east-1", ami_name |-> "test-ami", source_ami |-> "debian-12-*",
     subnet_ids |-> <<"subnet-1", "subnet-2">>, platform |-> "linux",
     ssh |-> [username |-> "admin", timeout |-> "300", retries |-> "30"]]

\* BuildContext.setup_script and BuildContext.extra_files, by name.
setup_script == "setup.sh"
extra_files == "extra.txt"

\* BuildState(): every field None.
BuildState ==
    [instance_id |-> None, sg_id |-> None, key_material |-> None, result |-> None]

\* Mutant: the name does not carry the unique id.
resource_name_NoUniqueId(uid) == "orfmi"

\* BuildContext.resource_name with no suffix: "orfmi-" followed by the unique id.
resource_name(uid) ==
    CASE uid = "uid-a" -> "orfmi-uid-a"
      [] uid = "uid-b" -> "orfmi-uid-b"

VARIABLES
    pc,             \* the statement of build / _run_build / _cleanup to run next
    log,            \* events: collaborator call/ret/raise, function enter/leave/unwind
    heap,           \* BuildState objects by reference
    frame,          \* the locals and parameters of build, _run_build, _cleanup
    exc,            \* the exception in flight, or NoExc
    outcome,        \* what build gave its caller
    script_exists,  \* whether ctx.setup_script exists on local storage
    created         \* transient cloud resources the collaborators created

vars == <<pc, log, heap, frame, exc, outcome, script_exists, created>>

\* No local is bound before build starts.
NoFrame ==
    [state |-> None, run_build_state |-> None, cleanup_state |-> None,
     unique_id |-> None, vpc_id |-> None, source_ami_id |-> None, public_ip |-> None]

(***************************************************************************)
(* Event log.                                                              *)
(***************************************************************************)
Ev(ev, op, val) == [ev |-> ev, op |-> op, val |-> val]
Last == log[Len(log)]
Idle == IF log = <<>> THEN TRUE ELSE Last.ev # "call"
InProgress(op) == IF log = <<>> THEN FALSE ELSE Last.ev = "call" /\ Last.op = op
Invoke(op, args) == log' = Append(log, Ev("call", op, args))
Return(op, v) == log' = Append(log, Ev("ret", op, <<v>>))

(***************************************************************************)
(* The collaborators (ec2 and ssh wrappers), as the builder sees them.     *)
(***************************************************************************)
\* The wrappers that swallow the errors of the call they wrap.
NeverRaises == {"delete_launch_template", "delete_key_pair", "delete_security_group"}

\* The errors a collaborator may raise: any exception type, tagged with the operation.
Errors(op) == IF op \in NeverRaises THEN {} ELSE {<<t, op>> : t \in ErrTypes}

\* The transient resource a create operation leaves behind when it returns id v.
Creates(op, name, v) ==
    CASE op = "create_key_pair" -> {<<"key_pair", name>>}
      [] op = "create_launch_template" -> {<<"launch_template", name>>}
      [] op = "create_security_group" /\ ~Falsy(v) -> {<<"security_group", v>>}
      [] op = "create_fleet_instance" /\ ~Falsy(v) -> {<<"instance", v>>}
      [] OTHER -> {}

Init ==
    /\ pc = "generate_unique_id"
    /\ log = <<>>
    /\ heap = [r \in {} |-> BuildState]
    /\ frame = NoFrame
    /\ exc = NoExc
    /\ outcome = [kind |-> "running", val |-> <<>>]
    /\ script_exists \in BOOLEAN
    /\ created = {}

\* The BuildState the pipeline and the cleanup work on.
St(ref) == heap[ref]
key_name == resource_name(frame.unique_id)
\* Mutant: the launch template is named after another unique id.
template_name_OtherId == resource_name(CHOOSE u \in UniqueIds : u # frame.unique_id)

template_name == resource_name(frame.unique_id)
sg_name == resource_name(frame.unique_id)

(***************************************************************************)
(* build, before the try block: an error here leaves build at once.        *)
(***************************************************************************)
\* Mutant: the error passes through a cleanup that deletes the key pair.
RaiseOutOfBuild_CleansUp(op) ==
    \E e \in Errors(op) :
        /\ log' = log \o <<Ev("raise", op, e),
                           Ev("call", "delete_key_pair", <<"orfmi-None">>),
                           Ev("ret", "delete_key_pair", <<None>>),
                           Ev("unwind", "build", e)>>
        /\ outcome' = [kind |-> "raised", val |-> e]
        /\ pc' = "done"
        /\ UNCHANGED <<heap, frame, exc, script_exists, created>>

\* lines 101-102 are outside the try block: the error leaves build.
RaiseOutOfBuild(op) ==
    \E e \in Errors(op) :
        /\ log' = log \o <<Ev("raise", op, e), Ev("unwind", "build", e)>>
        /\ outcome' = [kind |-> "raised", val |-> e]
        /\ pc' = "done"
        /\ UNCHANGED <<heap, frame, exc, script_exists, created>>

generate_unique_id ==
    /\ pc = "generate_unique_id"
    /\ \/ /\ Idle
          /\ Invoke("generate_unique_id", <<>>)
          /\ UNCHANGED <<pc, heap, frame, exc, outcome, script_exists, created>>
       \/ /\ InProgress("generate_unique_id")
          /\ \E v \in UniqueIds :
                /\ Return("generate_unique_id", v)
                /\ frame' = [frame EXCEPT !.unique_id = v]
          /\ pc' = "create_ec2_client"
          /\ UNCHANGED <<heap, exc, outcome, script_exists, created>>
       \/ /\ InProgress("generate_unique_id")
          /\ RaiseOutOfBuild("generate_unique_id")

\* A reference no object of the heap has.
NewRef == IF "state#1" \in DOMAIN heap THEN "state#2" ELSE "state#1"

create_ec2_client ==
    /\ pc = "create_ec2_client"
    /\ \/ /\ Idle
          /\ Invoke("create_ec2_client", <<Config.region>>)
          /\ UNCHANGED <<pc, heap, frame, exc, outcome, script_exists, created>>
       \/ /\ InProgress("create_ec2_client")
          /\ Return("create_ec2_client", "ec2")
          /\ heap' = [r \in DOMAIN heap \cup {NewRef} |->
                         IF r = NewRef THEN BuildState ELSE heap[r]]
          /\ frame' = [frame EXCEPT !.state = NewRef]
          /\ pc' = "_run_build"
          /\ UNCHANGED <<exc, outcome, script_exists, created>>
       \/ /\ InProgress("create_ec2_client")
          /\ RaiseOutOfBuild("create_ec2_client")

(***************************************************************************)
(* The try block of build: _run_build and _launch_and_configure.           *)
(***************************************************************************)
\* Mutant: cleanup only after a try block that ended normally (no finally).
AfterTry_OnSuccessOnly(e) == IF e = NoExc THEN "finally" ELSE "end_finally"

\* Where control goes when the try block is left, normally or with error e: the
\* finally clause, in both cases.
AfterTry(e) == "finally"

\* Mutant: the source image is looked up before the security group is created.
after_Reordered(op) ==
    CASE op = "get_vpc_from_subnet" -> "create_key_pair"
      [] op = "create_key_pair" -> "lookup_source_ami"
      [] op = "lookup_source_ami" -> "create_security_group"
      [] op = "create_security_group" -> "create_launch_template"
      [] op = "create_launch_template" -> "create_fleet_instance"
      [] op = "create_fleet_instance" -> "wait_for_instance"
      [] op = "wait_for_instance" -> "setup_script_exists"
      [] op = "run_setup_script" -> "check_instance_id"
      [] op = "create_ami" -> "_run_build_return"

\* The statement that follows the successful return of a pipeline operation.
after(op) ==
    CASE op = "get_vpc_from_subnet" -> "create_key_pair"
      [] op = "create_key_pair" -> "create_security_group"
      [] op = "create_security_group" -> "lookup_source_ami"
      [] op = "lookup_source_ami" -> "create_launch_template"
      [] op = "create_launch_template" -> "create_fleet_instance"
      [] op = "create_fleet_instance" -> "wait_for_instance"
      [] op = "wait_for_instance" -> "setup_script_exists"
      [] op = "run_setup_script" -> "check_instance_id"
      [] op = "create_ami" -> "_run_build_return"

\* An exception raised by `raise` inside the pipeline leaves _run_build.
RaiseError(e) ==
    /\ log' = Append(log, Ev("unwind", "_run_build", e))
    /\ exc' = e
    /\ pc' = AfterTry(e)
    /\ UNCHANGED <<heap, frame, outcome, script_exists, created>>

\* Mutant: the error of a collaborator is swallowed and the pipeline goes on.
RaiseInPipeline_Swallowed(op) ==
    \E e \in Errors(op) :
        /\ log' = Append(log, Ev("raise", op, e))
        /\ pc' = after(op)
        /\ UNCHANGED <<heap, frame, exc, outcome, script_exists, created>>

\* Mutant: a step that failed is tried again.
RaiseInPipeline_Retried(op) ==
    \E e \in Errors(op) :
        /\ log' = Append(log, Ev("raise", op, e))
        /\ UNCHANGED <<pc, heap, frame, exc, outcome, script_exists, created>>

\* An exception raised by collaborator op propagates through the pipeline, which
\* catches nothing, and leaves _run_build.
RaiseInPipeline(op) ==
    \E e \in Errors(op) :
        /\ log' = log \o <<Ev("raise", op, e), Ev("unwind", "_run_build", e)>>
        /\ exc' = e
        /\ pc' = AfterTry(e)
        /\ UNCHANGED <<heap, frame, outcome, script_exists, created>>

\* build, lines 112-113: self._run_build(ctx, state)
_run_build ==
    /\ pc = "_run_build"
    /\ log' = Append(log, Ev("enter", "_run_build", <<frame.state>>))
    /\ frame' = [frame EXCEPT !.run_build_state = frame.state]
    /\ pc' = "get_vpc_from_subnet"
    /\ UNCHANGED <<heap, exc, outcome, script_exists, created>>

get_vpc_from_subnet ==
    /\ pc = "get_vpc_from_subnet"
    /\ \/ /\ Idle
          /\ Invoke("get_vpc_from_subnet", <<Config.subnet_ids[1]>>)
          /\ UNCHANGED <<pc, heap, frame, exc, outcome, script_exists, created>>
       \/ /\ InProgress("get_vpc_from_subnet")
          /\ \E v \in VpcIds :
                /\ Return("get_vpc_from_subnet", v)
                /\ frame' = [frame EXCEPT !.vpc_id = v]
          /\ pc' = after("get_vpc_from_subnet")
          /\ UNCHANGED <<heap, exc, outcome, script_exists, created>>
       \/ /\ InProgress("get_vpc_from_subnet")
          /\ RaiseInPipeline("get_vpc_from_subnet")

create_key_pair ==
    /\ pc = "create_key_pair"
    /\ \/ /\ Idle
          /\ Invoke("create_key_pair", <<key_name>>)
          /\ UNCHANGED <<pc, heap, frame, exc, outcome, script_exists, created>>
       \/ /\ InProgress("create_key_pair")
          /\ \E v \in Vals(KeyPool) \cup {Empty} :
                /\ Return("create_key_pair", v)
                /\ heap' = [heap EXCEPT ![frame.run_build_state].key_material = v]
                /\ created' = created \cup Creates("create_key_pair", key_name, v)
          /\ pc' = after("create_key_pair")
          /\ UNCHANGED <<frame, exc, outcome, script_exists>>
       \/ /\ InProgress("create_key_pair")
          /\ RaiseInPipeline("create_key_pair")

create_security_group ==
    /\ pc = "create_security_group"
    /\ \/ /\ Idle
          /\ Invoke("create_security_group", <<frame.vpc_id, sg_name, Config.platform>>)
          /\ UNCHANGED <<pc, heap, frame, exc, outcome, script_exists, created>>
       \/ /\ InProgress("create_security_group")
          /\ \E v \in Vals(SgPool) \cup {Empty} :
                /\ Return("create_security_group", v)
                /\ heap' = [heap EXCEPT ![frame.run_build_state].sg_id = v]
                /\ created' = created \cup Creates("create_security_group", sg_name, v)
          /\ pc' = after("create_security_group")
          /\ UNCHANGED <<frame, exc, outcome, script_exists>>
       \/ /\ InProgress("create_security_group")
          /\ RaiseInPipeline("create_security_group")

lookup_source_ami ==
    /\ pc = "lookup_source_ami"
    /\ \/ /\ Idle
          /\ Invoke("lookup_source_ami", <<Config.source_ami>>)
          /\ UNCHANGED <<pc, heap, frame, exc, outcome, script_exists, created>>
       \/ /\ InProgress("lookup_source_ami")
          /\ \E v \in SourceAmiIds :
                /\ Return("lookup_source_ami", v)
                /\ frame' = [frame EXCEPT !.source_ami_id = v]
          /\ pc' = after("lookup_source_ami")
          /\ UNCHANGED <<heap, exc, outcome, script_exists, created>>
       \/ /\ InProgress("lookup_source_ami")
          /\ RaiseInPipeline("lookup_source_ami")

\* Mutant: the template is given the configured image pattern, not the image found.
lt_params_ConfiguredImage ==
    <<template_name, Config.source_ami, St(frame.run_build_state).sg_id, key_name>>

\* LaunchTemplateParams(...) of lines 147-153: template name, base image, security
\* group and key name.
lt_params ==
    <<template_name, frame.source_ami_id, St(frame.run_build_state).sg_id, key_name>>

create_launch_template ==
    /\ pc = "create_launch_template"
    /\ \/ /\ Idle
          /\ Invoke("create_launch_template", lt_params)
          /\ UNCHANGED <<pc, heap, frame, exc, outcome, script_exists, created>>
       \/ /\ InProgress("create_launch_template")
          /\ Return("create_launch_template", None)
          /\ created' = created \cup Creates("create_launch_template", template_name, None)
          /\ pc' = after("create_launch_template")
          /\ UNCHANGED <<heap, frame, exc, outcome, script_exists>>
       \/ /\ InProgress("create_launch_template")
          /\ RaiseInPipeline("create_launch_template")

create_fleet_instance ==
    /\ pc = "create_fleet_instance"
    /\ \/ /\ Idle
          /\ Invoke("create_fleet_instance", <<template_name>>)
          /\ UNCHANGED <<pc, heap, frame, exc, outcome, script_exists, created>>
       \/ /\ InProgress("create_fleet_instance")
          /\ \E v \in Vals(InstancePool) \cup {Empty} :
                /\ Return("create_fleet_instance", v)
                /\ heap' = [heap EXCEPT ![frame.run_build_state].instance_id = v]
                /\ created' = created \cup Creates("create_fleet_instance", template_name, v)
          /\ pc' = after("create_fleet_instance")
          /\ UNCHANGED <<frame, exc, outcome, script_exists>>
       \/ /\ InProgress("create_fleet_instance")
          /\ RaiseInPipeline("create_fleet_instance")

wait_for_instance ==
    /\ pc = "wait_for_instance"
    /\ \/ /\ Idle
          /\ Invoke("wait_for_instance", <<St(frame.run_build_state).instance_id>>)
          /\ UNCHANGED <<pc, heap, frame, exc, outcome, script_exists, created>>
       \/ /\ InProgress("wait_for_instance")
          /\ \E v \in PublicIps :
                /\ Return("wait_for_instance", v)
                /\ frame' = [frame EXCEPT !.public_ip = v]
          /\ pc' = after("wait_for_instance")
          /\ UNCHANGED <<heap, exc, outcome, script_exists, created>>
       \/ /\ InProgress("wait_for_instance")
          /\ RaiseInPipeline("wait_for_instance")

\* _launch_and_configure, lines 193-195: the script is run only if it exists, and
\* then only with key material.
setup_script_exists ==
    /\ pc = "setup_script_exists"
    /\ \/ /\ ~script_exists
          /\ pc' = "check_instance_id"
          /\ UNCHANGED <<log, heap, frame, exc, outcome, script_exists, created>>
       \/ /\ script_exists
          /\ ~Falsy(St(frame.run_build_state).key_material)
          /\ pc' = "run_setup_script"
          /\ UNCHANGED <<log, heap, frame, exc, outcome, script_exists, created>>
       \/ /\ script_exists
          /\ Falsy(St(frame.run_build_state).key_material)
          /\ RaiseError(<<"RuntimeError", "Key material not set">>)

\* SshConfig(...) of lines 198-204, as the tuple of its five fields.
ssh_config_WrongAddress(public_ip, key_material) ==
    <<St(frame.run_build_state).instance_id, key_material,
      Config.ssh.username, Config.ssh.timeout, Config.ssh.retries>>

ssh_config(public_ip, key_material) ==
    <<public_ip, key_material, Config.ssh.username, Config.ssh.timeout, Config.ssh.retries>>

run_setup_script ==
    /\ pc = "run_setup_script"
    /\ \/ /\ Idle
          /\ Invoke("run_setup_script",
                    ssh_config(frame.public_ip, St(frame.run_build_state).key_material)
                        \o <<setup_script, extra_files>>)
          /\ UNCHANGED <<pc, heap, frame, exc, outcome, script_exists, created>>
       \/ /\ InProgress("run_setup_script")
          /\ Return("run_setup_script", None)
          /\ pc' = after("run_setup_script")
          /\ UNCHANGED <<heap, frame, exc, outcome, script_exists, created>>
       \/ /\ InProgress("run_setup_script")
          /\ RaiseInPipeline("run_setup_script")

\* _run_build, lines 158-159.
check_instance_id ==
    /\ pc = "check_instance_id"
    /\ \/ /\ ~Falsy(St(frame.run_build_state).instance_id)
          /\ pc' = "create_ami"
          /\ UNCHANGED <<log, heap, frame, exc, outcome, script_exists, created>>
       \/ /\ Falsy(St(frame.run_build_state).instance_id)
          /\ RaiseError(<<"RuntimeError", "Instance ID not set after launch">>)

create_ami ==
    /\ pc = "create_ami"
    /\ \/ /\ Idle
          /\ Invoke("create_ami", <<St(frame.run_build_state).instance_id, Config.ami_name>>)
          /\ UNCHANGED <<pc, heap, frame, exc, outcome, script_exists, created>>
       \/ /\ InProgress("create_ami")
          /\ \E v \in Vals(ImagePool) \cup {Empty} :
                /\ Return("create_ami", v)
                /\ heap' = [heap EXCEPT ![frame.run_build_state].result = v]
          /\ pc' = after("create_ami")
          /\ UNCHANGED <<frame, exc, outcome, script_exists, created>>
       \/ /\ InProgress("create_ami")
          /\ RaiseInPipeline("create_ami")

\* _run_build returns normally: the try block is left without an exception.
_run_build_return ==
    /\ pc = "_run_build_return"
    /\ log' = Append(log, Ev("leave", "_run_build", <<frame.run_build_state>>))
    /\ pc' = AfterTry(NoExc)
    /\ UNCHANGED <<heap, frame, exc, outcome, script_exists, created>>

(***************************************************************************)
(* The finally clause of build: _cleanup.                                  *)
(***************************************************************************)
\* Mutant: only None counts as unset, so an empty id is acted on.
Recorded_NotNone(id) == id # None

\* Mutant: the id is never looked at.
Recorded_Always(id) == TRUE

\* _cleanup, lines 213 and 224: a recorded id is a truthy one.
Recorded(id) == ~Falsy(id)

\* Mutant: the key pair is deleted before the launch template.
cleanup_after_Swapped(op) ==
    CASE op = "terminate_instance" -> "delete_key_pair"
      [] op = "delete_key_pair" -> "delete_launch_template"
      [] op = "delete_launch_template" -> "delete_security_group"
      [] op = "delete_security_group" -> "_cleanup_return"

\* The statement that follows a cleanup operation, run or skipped.
cleanup_after(op) ==
    CASE op = "terminate_instance" -> "delete_launch_template"
      [] op = "delete_launch_template" -> "delete_key_pair"
      [] op = "delete_key_pair" -> "delete_security_group"
      [] op = "delete_security_group" -> "_cleanup_return"

\* An exception raised by collaborator op propagates through _cleanup, which catches
\* nothing, and replaces the exception of the try block, if any.
RaiseInCleanup(op) ==
    \E e \in Errors(op) :
        /\ log' = log \o <<Ev("raise", op, e), Ev("unwind", "_cleanup", e)>>
        /\ exc' = e
        /\ pc' = "end_finally"
        /\ UNCHANGED <<heap, frame, outcome, script_exists, created>>

\* Mutant: build starts _cleanup and goes on without waiting for it.
_cleanup_NotAwaited ==
    /\ pc = "finally"
    /\ log' = Append(log, Ev("enter", "_cleanup", <<frame.state>>))
    /\ frame' = [frame EXCEPT !.cleanup_state = frame.state]
    /\ pc' = "end_finally"
    /\ UNCHANGED <<heap, exc, outcome, script_exists, created>>

\* build, lines 114-115: self._cleanup(ctx, state)
_cleanup ==
    /\ pc = "finally"
    /\ log' = Append(log, Ev("enter", "_cleanup", <<frame.state>>))
    /\ frame' = [frame EXCEPT !.cleanup_state = frame.state]
    /\ pc' = "terminate_instance"
    /\ UNCHANGED <<heap, exc, outcome, script_exists, created>>

terminate_instance ==
    /\ pc = "terminate_instance"
    /\ \/ /\ Idle
          /\ ~Recorded(St(frame.cleanup_state).instance_id)
          /\ pc' = cleanup_after("terminate_instance")
          /\ UNCHANGED <<log, heap, frame, exc, outcome, script_exists, created>>
       \/ /\ Idle
          /\ Recorded(St(frame.cleanup_state).instance_id)
          /\ Invoke("terminate_instance", <<St(frame.cleanup_state).instance_id>>)
          /\ UNCHANGED <<pc, heap, frame, exc, outcome, script_exists, created>>
       \/ /\ InProgress("terminate_instance")
          /\ Return("terminate_instance", None)
          /\ pc' = cleanup_after("terminate_instance")
          /\ UNCHANGED <<heap, frame, exc, outcome, script_exists, created>>
       \/ /\ InProgress("terminate_instance")
          /\ RaiseInCleanup("terminate_instance")

delete_launch_template ==
    /\ pc = "delete_launch_template"
    /\ \/ /\ Idle
          /\ Invoke("delete_launch_template", <<template_name>>)
          /\ UNCHANGED <<pc, heap, frame, exc, outcome, script_exists, created>>
       \/ /\ InProgress("delete_launch_template")
          /\ Return("delete_launch_template", None)
          /\ pc' = cleanup_after("delete_launch_template")
          /\ UNCHANGED <<heap, frame, exc, outcome, script_exists, created>>
       \/ /\ InProgress("delete_launch_template")
          /\ RaiseInCleanup("delete_launch_template")

delete_key_pair ==
    /\ pc = "delete_key_pair"
    /\ \/ /\ Idle
          /\ Invoke("delete_key_pair", <<key_name>>)
          /\ UNCHANGED <<pc, heap, frame, exc, outcome, script_exists, created>>
       \/ /\ InProgress("delete_key_pair")
          /\ Return("delete_key_pair", None)
          /\ pc' = cleanup_after("delete_key_pair")
          /\ UNCHANGED <<heap, frame, exc, outcome, script_exists, created>>
       \/ /\ InProgress("delete_key_pair")
          /\ RaiseInCleanup("delete_key_pair")

delete_security_group ==
    /\ pc = "delete_security_group"
    /\ \/ /\ Idle
          /\ ~Recorded(St(frame.cleanup_state).sg_id)
          /\ pc' = cleanup_after("delete_security_group")
          /\ UNCHANGED <<log, heap, frame, exc, outcome, script_exists, created>>
       \/ /\ Idle
          /\ Recorded(St(frame.cleanup_state).sg_id)
          /\ Invoke("delete_security_group", <<St(frame.cleanup_state).sg_id>>)
          /\ UNCHANGED <<pc, heap, frame, exc, outcome, script_exists, created>>
       \/ /\ InProgress("delete_security_group")
          /\ Return("delete_security_group", None)
          /\ pc' = cleanup_after("delete_security_group")
          /\ UNCHANGED <<heap, frame, exc, outcome, script_exists, created>>
       \/ /\ InProgress("delete_security_group")
          /\ RaiseInCleanup("delete_security_group")

\* Mutant: _cleanup resets the result along with the resources.
_cleanup_return_ClearsResult ==
    /\ pc = "_cleanup_return"
    /\ log' = Append(log, Ev("leave", "_cleanup", <<frame.cleanup_state>>))
    /\ heap' = [heap EXCEPT ![frame.cleanup_state].result = None]
    /\ pc' = "end_finally"
    /\ UNCHANGED <<frame, exc, outcome, script_exists, created>>

\* Mutant: _cleanup clears the instance id once the instance is terminated.
_cleanup_return_ClearsInstance ==
    /\ pc = "_cleanup_return"
    /\ log' = Append(log, Ev("leave", "_cleanup", <<frame.cleanup_state>>))
    /\ heap' = [heap EXCEPT ![frame.cleanup_state].instance_id = None]
    /\ pc' = "end_finally"
    /\ UNCHANGED <<frame, exc, outcome, script_exists, created>>

\* _cleanup returns normally.
_cleanup_return ==
    /\ pc = "_cleanup_return"
    /\ log' = Append(log, Ev("leave", "_cleanup", <<frame.cleanup_state>>))
    /\ pc' = "end_finally"
    /\ UNCHANGED <<heap, frame, exc, outcome, script_exists, created>>

(***************************************************************************)
(* build, after the finally clause.                                        *)
(***************************************************************************)
\* The finally clause is over: an exception in flight (the try block's, or the one
\* _cleanup raised in its place) leaves build.
end_finally ==
    /\ pc = "end_finally"
    /\ \/ /\ exc # NoExc
          /\ log' = Append(log, Ev("unwind", "build", exc))
          /\ outcome' = [kind |-> "raised", val |-> exc]
          /\ pc' = "done"
          /\ UNCHANGED <<heap, frame, exc, script_exists, created>>
       \/ /\ exc = NoExc
          /\ pc' = "check_result"
          /\ UNCHANGED <<log, heap, frame, exc, outcome, script_exists, created>>

\* Mutant: build returns the instance id instead of the image id.
build_result_InstanceId(st) == st.instance_id

\* build, line 120: the value build returns.
build_result(st) == st.result

\* build, lines 117-120.
check_result ==
    /\ pc = "check_result"
    /\ \/ /\ Falsy(St(frame.state).result)
          /\ LET e == <<"RuntimeError", "AMI build failed: no AMI ID returned">>
             IN /\ log' = Append(log, Ev("unwind", "build", e))
                /\ outcome' = [kind |-> "raised", val |-> e]
          /\ pc' = "done"
          /\ UNCHANGED <<heap, frame, exc, script_exists, created>>
       \/ /\ ~Falsy(St(frame.state).result)
          /\ log' = Append(log, Ev("leave", "build", <<build_result(St(frame.state))>>))
          /\ outcome' = [kind |-> "returned", val |-> <<build_result(St(frame.state))>>]
          /\ pc' = "done"
          /\ UNCHANGED <<heap, frame, exc, script_exists, created>>

Next ==
    \/ generate_unique_id
    \/ create_ec2_client
    \/ _run_build
    \/ get_vpc_from_subnet
    \/ create_key_pair
    \/ create_security_group
    \/ lookup_source_ami
    \/ create_launch_template
    \/ create_fleet_instance
    \/ wait_for_instance
    \/ setup_script_exists
    \/ run_setup_script
    \/ check_instance_id
    \/ create_ami
    \/ _run_build_return
    \/ _cleanup
    \/ terminate_instance
    \/ delete_launch_template
    \/ delete_key_pair
    \/ delete_security_group
    \/ _cleanup_return
    \/ end_finally
    \/ check_result

Spec == Init /\ [][Next]_vars

\* Every collaborator call eventually returns or raises, and build goes on.
FairSpec == Spec /\ WF_vars(Next)

(***************************************************************************)
(* The Remote Provisioner: run_setup_script and connect_ssh of ssh.py, on  *)
(* their own.  One behaviour is one call of run_setup_script(config,       *)
(* setup_script, extra_files) against a host whose connect and whose       *)
(* session operations may each fail.  pc, log, frame, exc and outcome are  *)
(* those of run_setup_script; heap, script_exists and created are not      *)
(* used.                                                                   *)
(***************************************************************************)
\* The largest SshConfig.retries and the longest extra_files list examined.
MaxRetries == 3
MaxExtraFiles == 2

ExtraPool == <<"extra1.txt", "extra2.txt", "extra3.txt", "extra4.txt">>
SshErrTypes == {"SSHException", "OSError"}
FailedToConnect == <<"RuntimeError", "Failed to connect">>

SshInit ==
    /\ pc = "connect_ssh"
    /\ log = <<>>
    /\ heap = [r \in {} |-> BuildState]
    /\ frame \in {[retries |-> n, attempt |-> 0, client |-> None,
                   extra_files |-> SubSeq(ExtraPool, 1, k), next_file |-> 1] :
                      n \in 1..MaxRetries, k \in 0..MaxExtraFiles}
    /\ exc = NoExc
    /\ outcome = [kind |-> "running", val |-> <<>>]
    /\ script_exists = TRUE
    /\ created = {}

\* Mutant: connect_ssh gives up one attempt early.
more_attempts_OneFewer(attempt, retries) == attempt + 1 < retries

\* Mutant: connect_ssh makes one attempt more than configured.
more_attempts_OneMore(attempt, retries) == attempt <= retries

\* The retry loop of connect_ssh: another attempt is made while fewer than
\* `retries` have been made.
more_attempts(attempt, retries) == attempt < retries

\* Mutant: the session is closed only when every step succeeded.
AfterSession_OnSuccessOnly(e) == IF e = NoExc THEN "close" ELSE "run_setup_script_exit"

\* Where control goes when the steps on the session are left, normally or with
\* error e: to the close of the session, in both cases.
AfterSession(e) == "close"

\* Mutant: the extra files are uploaded before the script is executed.
ssh_after_ExtraFilesFirst(step) ==
    CASE step = "connect" -> "upload_setup_script"
      [] step = "upload_setup_script" -> "chmod"
      [] step = "chmod" -> "upload_extra_files"
      [] step = "upload_extra_files" -> "run_ssh_command"
      [] step = "run_ssh_command" -> AfterSession(NoExc)

\* The steps on the session, in order.
ssh_after(step) ==
    CASE step = "connect" -> "upload_setup_script"
      [] step = "upload_setup_script" -> "chmod"
      [] step = "chmod" -> "run_ssh_command"
      [] step = "run_ssh_command" -> "upload_extra_files"
      [] step = "upload_extra_files" -> AfterSession(NoExc)

\* run_setup_script starts by calling connect_ssh.
connect_ssh ==
    /\ pc = "connect_ssh"
    /\ log' = log \o <<Ev("enter", "run_setup_script", <<>>),
                       Ev("enter", "connect_ssh", <<>>)>>
    /\ pc' = IF more_attempts(frame.attempt, frame.retries) THEN "connect"
             ELSE "connect_failed"
    /\ UNCHANGED <<heap, frame, exc, outcome, script_exists, created>>

\* One attempt of the loop: client.connect(...).  A success ends connect_ssh,
\* which returns the client; a failure is caught.
connect ==
    /\ pc = "connect"
    /\ \/ /\ Idle
          /\ Invoke("connect", <<>>)
          /\ frame' = [frame EXCEPT !.attempt = @ + 1]
          /\ UNCHANGED <<pc, heap, exc, outcome, script_exists, created>>
       \/ /\ InProgress("connect")
          /\ log' = log \o <<Ev("ret", "connect", <<None>>),
                             Ev("leave", "connect_ssh", <<"client">>)>>
          /\ frame' = [frame EXCEPT !.client = "client"]
          /\ pc' = ssh_after("connect")
          /\ UNCHANGED <<heap, exc, outcome, script_exists, created>>
       \/ /\ InProgress("connect")
          /\ log' = Append(log, Ev("raise", "connect", <<"TimeoutError", "connect">>))
          /\ pc' = IF more_attempts(frame.attempt, frame.retries) THEN "sleep"
                   ELSE "connect_failed"
          /\ UNCHANGED <<heap, frame, exc, outcome, script_exists, created>>

\* time.sleep between two attempts.
sleep ==
    /\ pc = "sleep"
    /\ \/ /\ Idle
          /\ Invoke("sleep", <<>>)
          /\ UNCHANGED <<pc, heap, frame, exc, outcome, script_exists, created>>
       \/ /\ InProgress("sleep")
          /\ Return("sleep", None)
          /\ pc' = "connect"
          /\ UNCHANGED <<heap, frame, exc, outcome, script_exists, created>>

\* The loop of connect_ssh is exhausted: RuntimeError, which run_setup_script
\* does not catch (it holds no session yet).
connect_failed ==
    /\ pc = "connect_failed"
    /\ log' = log \o <<Ev("unwind", "connect_ssh", FailedToConnect),
                       Ev("unwind", "run_setup_script", FailedToConnect)>>
    /\ outcome' = [kind |-> "raised", val |-> FailedToConnect]
    /\ pc' = "done"
    /\ UNCHANGED <<heap, frame, exc, script_exists, created>>

\* A step on the session fails: the error is kept while the session is closed.
RaiseInSession(op) ==
    \E t \in SshErrTypes :
        /\ log' = Append(log, Ev("raise", op, <<t, op>>))
        /\ exc' = <<t, op>>
        /\ pc' = AfterSession(<<t, op>>)
        /\ UNCHANGED <<heap, frame, outcome, script_exists, created>>

\* A step on the session that takes no part in the loop over the extra files.
SessionStep(step, op, args) ==
    /\ pc = step
    /\ \/ /\ Idle
          /\ Invoke(op, args)
          /\ UNCHANGED <<pc, heap, frame, exc, outcome, script_exists, created>>
       \/ /\ InProgress(op)
          /\ Return(op, None)
          /\ pc' = ssh_after(step)
          /\ UNCHANGED <<heap, frame, exc, outcome, script_exists, created>>
       \/ /\ InProgress(op)
          /\ RaiseInSession(op)

upload_setup_script == SessionStep("upload_setup_script", "upload_file", <<setup_script>>)
chmod == SessionStep("chmod", "chmod", <<setup_script>>)
run_ssh_command == SessionStep("run_ssh_command", "run_ssh_command", <<setup_script>>)

\* The loop over extra_files: one upload_file per file, in the order given.
upload_extra_files ==
    /\ pc = "upload_extra_files"
    /\ \/ /\ Idle
          /\ frame.next_file > Len(frame.extra_files)
          /\ pc' = ssh_after("upload_extra_files")
          /\ UNCHANGED <<log, heap, frame, exc, outcome, script_exists, created>>
       \/ /\ Idle
          /\ frame.next_file <= Len(frame.extra_files)
          /\ Invoke("upload_file", <<frame.extra_files[frame.next_file]>>)
          /\ UNCHANGED <<pc, heap, frame, exc, outcome, script_exists, created>>
       \/ /\ InProgress("upload_file")
          /\ Return("upload_file", None)
          /\ frame' = [frame EXCEPT !.next_file = @ + 1]
          /\ UNCHANGED <<pc, heap, exc, outcome, script_exists, created>>
       \/ /\ InProgress("upload_file")
          /\ RaiseInSession("upload_file")

\* client.close(), whatever happened to the steps.
close ==
    /\ pc = "close"
    /\ \/ /\ Idle
          /\ Invoke("close", <<frame.client>>)
          /\ UNCHANGED <<pc, heap, frame, exc, outcome, script_exists, created>>
       \/ /\ InProgress("close")
          /\ Return("close", None)
          /\ pc' = "run_setup_script_exit"
          /\ UNCHANGED <<heap, frame, exc, outcome, script_exists, created>>

\* run_setup_script returns, or the error of the failed step propagates.
run_setup_script_exit ==
    /\ pc = "run_setup_script_exit"
    /\ \/ /\ exc = NoExc
          /\ log' = Append(log, Ev("leave", "run_setup_script", <<None>>))
          /\ outcome' = [kind |-> "returned", val |-> <<None>>]
       \/ /\ exc # NoExc
          /\ log' = Append(log, Ev("unwind", "run_setup_script", exc))
          /\ outcome' = [kind |-> "raised", val |-> exc]
    /\ pc' = "done"
    /\ UNCHANGED <<heap, frame, exc, script_exists, created>>

SshNext ==
    \/ connect_ssh
    \/ connect
    \/ sleep
    \/ connect_failed
    \/ upload_setup_script
    \/ chmod
    \/ run_ssh_command
    \/ upload_extra_files
    \/ close
    \/ run_setup_script_exit

SshSpec == SshInit /\ [][SshNext]_vars

(***************************************************************************)
(* delete_security_group of ec2.py, on its own: one behaviour is one call  *)
(* delete_security_group(ec2, group_id) against a gateway whose            *)
(* ec2.delete_security_group may fail with a ClientError at every attempt. *)
(* pc, log, frame and outcome are those of the wrapper.                    *)
(***************************************************************************)
\* The retry ceiling: the most attempts delete_security_group makes.
MaxSgAttempts == 4

\* The error codes with which the gateway refuses the delete.
SgErrorCodes == {"DependencyViolation", "RequestLimitExceeded"}

SgInit ==
    /\ pc = "sg_enter"
    /\ log = <<>>
    /\ heap = [r \in {} |-> BuildState]
    /\ frame \in {[group_id |-> g, attempt |-> 0] : g \in Vals(SgPool)}
    /\ exc = NoExc
    /\ outcome = [kind |-> "running", val |-> <<>>]
    /\ script_exists = FALSE
    /\ created = {}

\* Mutant: a failed delete is never retried.
sg_more_attempts_NoRetry(attempt) == attempt < 1

\* The retry loop: another attempt is made while fewer than the ceiling have
\* been made.
sg_more_attempts(attempt) == attempt < MaxSgAttempts

\* Mutant: the last error is raised when the ceiling is reached.
sg_exhausted_Raises(e) == [kind |-> "raised", val |-> e]

\* What delete_security_group gives its caller when the ceiling is reached
\* after error e: it logs and returns.
sg_exhausted(e) == [kind |-> "returned", val |-> <<None>>]

delete_security_group_enter ==
    /\ pc = "sg_enter"
    /\ log' = Append(log, Ev("enter", "delete_security_group", <<frame.group_id>>))
    /\ pc' = IF sg_more_attempts(frame.attempt) THEN "sg_delete" ELSE "sg_give_up"
    /\ UNCHANGED <<heap, frame, exc, outcome, script_exists, created>>

\* One attempt: ec2.delete_security_group(GroupId=group_id).  A success ends
\* the wrapper; a ClientError is caught.
ec2_delete_security_group ==
    /\ pc = "sg_delete"
    /\ \/ /\ Idle
          /\ Invoke("ec2.delete_security_group", <<frame.group_id>>)
          /\ frame' = [frame EXCEPT !.attempt = @ + 1]
          /\ UNCHANGED <<pc, heap, exc, outcome, script_exists, created>>
       \/ /\ InProgress("ec2.delete_security_group")
          /\ log' = log \o <<Ev("ret", "ec2.delete_security_group", <<None>>),
                             Ev("leave", "delete_security_group", <<None>>)>>
          /\ outcome' = [kind |-> "returned", val |-> <<None>>]
          /\ pc' = "done"
          /\ UNCHANGED <<heap, frame, exc, script_exists, created>>
       \/ /\ InProgress("ec2.delete_security_group")
          /\ \E code \in SgErrorCodes :
                /\ log' = Append(log, Ev("raise", "ec2.delete_security_group",
                                         <<"ClientError", code>>))
                /\ exc' = <<"ClientError", code>>
          /\ pc' = IF sg_more_attempts(frame.attempt) THEN "sg_sleep" ELSE "sg_give_up"
          /\ UNCHANGED <<heap, frame, outcome, script_exists, created>>

\* The backoff between two attempts: time.sleep.
sg_sleep ==
    /\ pc = "sg_sleep"
    /\ \/ /\ Idle
          /\ Invoke("sleep", <<>>)
          /\ UNCHANGED <<pc, heap, frame, exc, outcome, script_exists, created>>
       \/ /\ InProgress("sleep")
          /\ Return("sleep", None)
          /\ exc' = NoExc
          /\ pc' = "sg_delete"
          /\ UNCHANGED <<heap, frame, outcome, script_exists, created>>

\* The ceiling is reached: the wrapper logs the failure and ends.
sg_give_up ==
    /\ pc = "sg_give_up"
    /\ outcome' = sg_exhausted(exc)
    /\ log' = Append(log, IF sg_exhausted(exc).kind = "returned"
                          THEN Ev("leave", "delete_security_group", <<None>>)
                          ELSE Ev("unwind", "delete_security_group", exc))
    /\ pc' = "done"
    /\ UNCHANGED <<heap, frame, exc, script_exists, created>>

SgNext ==
    \/ delete_security_group_enter
    \/ ec2_delete_security_group
    \/ sg_sleep
    \/ sg_give_up

SgSpec == SgInit /\ [][SgNext]_vars

\* The wrapper is not held up for ever: a step that can be taken is taken.
SgFairSpec == SgSpec /\ WF_vars(SgNext)

(***************************************************************************)
(* Four more wrappers of ec2.py, each on its own: delete_key_pair,         *)
(* delete_launch_template, lookup_source_ami and create_fleet_instance.    *)
(* One behaviour is one call of the wrapper frame.fn against a gateway     *)
(* that answers as frame says.  create_fleet_instance is called as         *)
(* _launch_and_configure calls it, its value assigned to                   *)
(* state.instance_id.                                                      *)
(***************************************************************************)
\* The most images describe_images lists, the latest creation date, the most
\* instance groups create_fleet answers with and the most ids in a group.
MaxImages == 3
MaxDate == 3
MaxGroups == 2
MaxGroupSize == 2

ImageIdPool == <<"ami-a", "ami-b", "ami-c", "ami-d">>
DeleteErrorCodes == {"NotFound", "UnauthorizedOperation"}
FleetErrors == {<<>>, <<"Capacity error">>}

\* The answers of describe_images: the k-th image listed has the k-th id and
\* any creation date.
Listings ==
    UNION {{[k \in 1..n |-> [ImageId |-> ImageIdPool[k], CreationDate |-> dates[k]]] :
               dates \in [1..n -> 1..MaxDate]} : n \in 0..MaxImages}

\* The answers of create_fleet: groups of instance ids.
SeqsUpTo(S, n) == UNION {[1..k -> S] : k \in 0..n}
FleetGroups == SeqsUpTo(Vals(InstancePool), MaxGroupSize) \ {<<>>}
FleetAnswers == SeqsUpTo(FleetGroups, MaxGroups)

NoCall == [fn |-> None, name |-> None, images |-> <<>>, instances |-> <<>>, errors |-> <<>>]

Ec2Init ==
    /\ pc = "ec2_enter"
    /\ log = <<>>
    /\ heap = [r \in {"state"} |-> BuildState]
    /\ frame \in
          {[NoCall EXCEPT !.fn = f, !.name = resource_name(u)] :
              f \in {"delete_key_pair", "delete_launch_template"}, u \in UniqueIds}
          \cup {[NoCall EXCEPT !.fn = "lookup_source_ami", !.name = Config.source_ami,
                               !.images = l] : l \in Listings}
          \cup {[NoCall EXCEPT !.fn = "create_fleet_instance",
                               !.name = resource_name(u), !.instances = a, !.errors = e] :
                   u \in UniqueIds, a \in FleetAnswers, e \in FleetErrors}
    /\ exc = NoExc
    /\ outcome = [kind |-> "running", val |-> <<>>]
    /\ script_exists = FALSE
    /\ created = {}

\* The wrapper is entered.
ec2_enter ==
    /\ pc = "ec2_enter"
    /\ log' = Append(log, Ev("enter", frame.fn, <<frame.name>>))
    /\ pc' = frame.fn
    /\ UNCHANGED <<heap, frame, exc, outcome, script_exists, created>>

\* The wrapper returns v to its caller, or raises e.
Ec2Returns(v) ==
    /\ outcome' = [kind |-> "returned", val |-> <<v>>]
    /\ pc' = "done"
Ec2Raises(e) ==
    /\ outcome' = [kind |-> "raised", val |-> e]
    /\ pc' = "done"

\* Mutant: the error of the underlying delete is raised to the caller.
delete_failed_Raises(e) == [kind |-> "raised", val |-> e]

\* delete_key_pair and delete_launch_template catch the ClientError of the
\* underlying delete, log it and return.
delete_failed(e) == [kind |-> "returned", val |-> <<None>>]

\* delete_key_pair / delete_launch_template: one underlying delete.
DeleteWrapper(fn, api) ==
    /\ pc = fn
    /\ \/ /\ Idle
          /\ Invoke(api, <<frame.name>>)
          /\ UNCHANGED <<pc, heap, frame, exc, outcome, script_exists, created>>
       \/ /\ InProgress(api)
          /\ log' = log \o <<Ev("ret", api, <<None>>), Ev("leave", fn, <<None>>)>>
          /\ Ec2Returns(None)
          /\ UNCHANGED <<heap, frame, exc, script_exists, created>>
       \/ /\ InProgress(api)
          /\ \E code \in DeleteErrorCodes :
                LET e == <<"ClientError", code>>
                IN /\ log' = log \o <<Ev("raise", api, e),
                                      IF delete_failed(e).kind = "returned"
                                      THEN Ev("leave", fn, <<None>>)
                                      ELSE Ev("unwind", fn, e)>>
                   /\ outcome' = delete_failed(e)
          /\ pc' = "done"
          /\ UNCHANGED <<heap, frame, exc, script_exists, created>>

ec2_delete_key_pair == DeleteWrapper("delete_key_pair", "ec2.delete_key_pair")
ec2_delete_launch_template ==
    DeleteWrapper("delete_launch_template", "ec2.delete_launch_template")

\* Mutant: the image listed first is taken.
newest_FirstListed(images) == images[1]

\* The image with the latest creation date; of several, the one listed first.
newest(images) ==
    images[CHOOSE k \in DOMAIN images :
               /\ \A j \in DOMAIN images : images[j].CreationDate <= images[k].CreationDate
               /\ \A j \in 1..(k - 1) : images[j].CreationDate < images[k].CreationDate]

NoAmiFound == <<"RuntimeError", "No AMI found">>

\* lookup_source_ami: ec2.describe_images, then the newest image or an error.
ec2_describe_images ==
    /\ pc = "lookup_source_ami"
    /\ \/ /\ Idle
          /\ Invoke("ec2.describe_images", <<frame.name>>)
          /\ UNCHANGED <<pc, heap, frame, exc, outcome, script_exists, created>>
       \/ /\ InProgress("ec2.describe_images")
          /\ frame.images # <<>>
          /\ log' = log \o <<Ev("ret", "ec2.describe_images", <<"Images">>),
                             Ev("leave", "lookup_source_ami",
                                <<newest(frame.images).ImageId>>)>>
          /\ Ec2Returns(newest(frame.images).ImageId)
          /\ UNCHANGED <<heap, frame, exc, script_exists, created>>
       \/ /\ InProgress("ec2.describe_images")
          /\ frame.images = <<>>
          /\ log' = log \o <<Ev("ret", "ec2.describe_images", <<"Images">>),
                             Ev("unwind", "lookup_source_ami", NoAmiFound)>>
          /\ Ec2Raises(NoAmiFound)
          /\ UNCHANGED <<heap, frame, exc, script_exists, created>>

\* Mutant: the last instance id of the answer is taken.
first_instance_Last(instances) ==
    instances[Len(instances)][Len(instances[Len(instances)])]

\* The first instance id of the answer of create_fleet.
first_instance(instances) == instances[1][1]

\* The error of create_fleet_instance: the message, with the provider's errors.
FleetFailed(errors) == <<"RuntimeError", "Failed to create fleet instance">> \o errors

\* create_fleet_instance: ec2.create_fleet, then the first instance id, which
\* _launch_and_configure assigns to state.instance_id, or an error.
ec2_create_fleet ==
    /\ pc = "create_fleet_instance"
    /\ \/ /\ Idle
          /\ Invoke("ec2.create_fleet", <<frame.name>>)
          /\ UNCHANGED <<pc, heap, frame, exc, outcome, script_exists, created>>
       \/ /\ InProgress("ec2.create_fleet")
          /\ frame.instances # <<>>
          /\ log' = log \o <<Ev("ret", "ec2.create_fleet", <<"Instances">>),
                             Ev("leave", "create_fleet_instance",
                                <<first_instance(frame.instances)>>)>>
          /\ heap' = [heap EXCEPT !["state"].instance_id = first_instance(frame.instances)]
          /\ Ec2Returns(first_instance(frame.instances))
          /\ UNCHANGED <<frame, exc, script_exists, created>>
       \/ /\ InProgress("ec2.create_fleet")
          /\ frame.instances = <<>>
          /\ log' = log \o <<Ev("ret", "ec2.create_fleet", <<"Instances">>),
                             Ev("unwind", "create_fleet_instance",
                                FleetFailed(frame.errors))>>
          /\ Ec2Raises(FleetFailed(frame.errors))
          /\ UNCHANGED <<heap, frame, exc, script_exists, created>>

Ec2Next ==
    \/ ec2_enter
    \/ ec2_delete_key_pair
    \/ ec2_delete_launch_template
    \/ ec2_describe_images
    \/ ec2_create_fleet

Ec2Spec == Ec2Init /\ [][Ec2Next]_vars

(***************************************************************************)
(* The command line: main of cli.py with load_config of config.py.  One    *)
(* behaviour is one run of main on a configuration file and a setup file   *)
(* that exist or not; AmiBuilder.build is a collaborator here, which       *)
(* returns an image id or raises.  frame holds the files and the parsed    *)
(* YAML document, outcome the exit code.                                   *)
(***************************************************************************)
EXIT_SUCCESS == 0
EXIT_FAILURE == 1
EXIT_ERROR == 2

\* YAML values: an absent key, a string, a list of strings, a mapping.
Missing == [type |-> "missing", items |-> <<>>]
Str(t) == [type |-> "str", items |-> <<t>>]
List(items) == [type |-> "list", items |-> items]
Dict(items) == [type |-> "dict", items |-> items]
\* `f in data` and the truth value of data[f].
Has(data, f) == data[f].type # "missing"
Truthy(v) == IF v.type = "str" THEN v.items # <<"">> ELSE v.items # <<>>

\* The documents examined: what yaml.safe_load gives for the file.
Documents ==
    {[kind |-> k, ami_name |-> Missing, region |-> Missing, source_ami |-> Missing,
      subnet_ids |-> Missing, instance_types |-> Missing, platform |-> Missing,
      tags |-> Missing] : k \in {"yaml_error", "scalar"}}
    \cup
    {[kind |-> "mapping", ami_name |-> a, region |-> r, source_ami |-> s,
      subnet_ids |-> n, instance_types |-> t, platform |-> p, tags |-> g] :
        a \in {Missing, Str(""), Str("test-ami")},
        r \in {Missing, Str("us-east-1")},
        s \in {Missing, Str("debian-12-*")},
        n \in {Missing, List(<<>>), Str("subnet-1"), List(<<"subnet-1">>)},
        t \in {Missing, List(<<>>), Str("t3.micro"), List(<<"t3.micro">>)},
        p \in {Missing, Str("linux"), Str("windows"), Str("macos")},
        g \in {Missing, Dict(<<"Name">>), List(<<"Name=test">>)}}

NoError == <<>>
required == <<"ami_name", "region", "source_ami", "subnet_ids", "instance_types">>

\* config.py 32-37: the error _validate_required_fields raises, or NoError.
_validate_required_fields(data) ==
    LET absent(f) == ~Has(data, f) \/ ~Truthy(data[f])
    IN IF SelectSeq(required, absent) # <<>>
       THEN <<"ConfigError", "Missing required fields">> \o SelectSeq(required, absent)
       ELSE NoError

\* config.py 40-45.
_validate_list_fields(data) ==
    IF data.subnet_ids.type # "list" \/ ~Truthy(data.subnet_ids)
    THEN <<"ConfigError", "subnet_ids must be a non-empty list">>
    ELSE IF data.instance_types.type # "list" \/ ~Truthy(data.instance_types)
    THEN <<"ConfigError", "instance_types must be a non-empty list">>
    ELSE NoError

\* config.py 48-52: platform defaults to linux.
_validate_platform(data) ==
    LET platform == IF Has(data, "platform") THEN data.platform ELSE Str("linux")
    IN IF platform \notin {Str("linux"), Str("windows")}
       THEN <<"ConfigError", "Invalid platform">> \o platform.items
       ELSE NoError

\* config.py 55-60: tags default to {}.
_parse_tags(data) ==
    IF Has(data, "tags") /\ data.tags.type # "dict"
    THEN <<"ConfigError", "tags must be a dictionary">>
    ELSE NoError

\* config.py 63-105: the error load_config raises on the file, or NoError when it
\* returns an AmiConfig.
load_config(exists, data) ==
    IF ~exists THEN <<"FileNotFoundError", "Configuration file not found">>
    ELSE IF data.kind = "yaml_error"
    THEN <<"ConfigError", "Invalid YAML in configuration file">>
    ELSE IF data.kind # "mapping"
    THEN <<"ConfigError", "Configuration must be a YAML mapping">>
    ELSE IF _validate_required_fields(data) # NoError THEN _validate_required_fields(data)
    ELSE IF _validate_list_fields(data) # NoError THEN _validate_list_fields(data)
    ELSE IF _validate_platform(data) # NoError THEN _validate_platform(data)
    ELSE _parse_tags(data)

\* Mutant: only the configuration file is looked for.
validate_files_ConfigOnly(config_exists, setup_exists) ==
    IF ~config_exists THEN <<FALSE, "Configuration file not found">>
    ELSE <<TRUE, "">>

\* cli.py 73-85: the value validate_files returns and what it prints to stderr.
validate_files(config_exists, setup_exists) ==
    IF ~config_exists THEN <<FALSE, "Configuration file not found">>
    ELSE IF ~setup_exists THEN <<FALSE, "Setup file not found">>
    ELSE <<TRUE, "">>

\* cli.py 112: f"AMI_ID={ami_id}".
AMI_ID(ami_id) ==
    CASE ami_id = "ami-1" -> "AMI_ID=ami-1"
      [] ami_id = "ami-2" -> "AMI_ID=ami-2"
      [] ami_id = "ami-3" -> "AMI_ID=ami-3"
      [] ami_id = "ami-4" -> "AMI_ID=ami-4"

\* Mutant: every error of build is a build failure.
build_exit_code_AlwaysFailure(e) == EXIT_FAILURE

\* cli.py 114-119: the except clauses around build.
build_exit_code(e) == IF e[1] = "RuntimeError" THEN EXIT_FAILURE ELSE EXIT_ERROR

\* sys.exit(code).
Exit(code) ==
    /\ outcome' = [kind |-> "exited", val |-> <<code>>]
    /\ pc' = "done"

\* The files given on the command line, and the document in the configuration
\* file; the file may be gone by the time load_config opens it.
CliInit ==
    /\ pc = "validate_files"
    /\ log = <<>>
    /\ heap = [r \in {} |-> BuildState]
    /\ frame \in
          {[config_exists |-> c, setup_exists |-> x, config_gone |-> g, data |-> d] :
              c \in BOOLEAN, x \in BOOLEAN, g \in BOOLEAN, d \in Documents}
    /\ exc = NoExc
    /\ outcome = [kind |-> "running", val |-> <<>>]
    /\ script_exists = frame.setup_exists
    /\ created = {}

\* cli.py 95-96.
main_validate_files ==
    /\ pc = "validate_files"
    /\ LET r == validate_files(frame.config_exists, frame.setup_exists)
       IN \/ /\ r[1]
             /\ log' = Append(log, Ev("ret", "validate_files", <<"True">>))
             /\ pc' = "load_config"
             /\ UNCHANGED outcome
          \/ /\ ~r[1]
             /\ log' = log \o <<Ev("stderr", "print", <<r[2]>>),
                                Ev("ret", "validate_files", <<"False">>)>>
             /\ Exit(EXIT_ERROR)
    /\ UNCHANGED <<heap, frame, exc, script_exists, created>>

\* cli.py 98-105.
main_load_config ==
    /\ pc = "load_config"
    /\ LET e == load_config(~frame.config_gone, frame.data)
       IN \/ /\ e = NoError
             /\ log' = log \o <<Ev("call", "load_config", <<"config.yml">>),
                                Ev("ret", "load_config", <<"config">>)>>
             /\ pc' = "AmiBuilder"
             /\ UNCHANGED outcome
          \/ /\ e # NoError
             /\ log' = log \o <<Ev("call", "load_config", <<"config.yml">>),
                                Ev("raise", "load_config", e),
                                Ev("stderr", "print", SubSeq(e, 2, Len(e)))>>
             /\ Exit(EXIT_ERROR)
    /\ UNCHANGED <<heap, frame, exc, script_exists, created>>

\* cli.py 107-108.
main_AmiBuilder ==
    /\ pc = "AmiBuilder"
    /\ log' = log \o <<Ev("call", "AmiBuilder", <<"config", setup_script>>),
                       Ev("ret", "AmiBuilder", <<"builder">>)>>
    /\ pc' = "build"
    /\ UNCHANGED <<heap, frame, exc, outcome, script_exists, created>>

\* cli.py 110-119.
main_build ==
    /\ pc = "build"
    /\ \/ /\ Idle
          /\ Invoke("build", <<"builder">>)
          /\ UNCHANGED <<pc, outcome>>
       \/ /\ InProgress("build")
          /\ \E ami_id \in Vals(ImagePool) :
                log' = log \o <<Ev("ret", "build", <<ami_id>>),
                                Ev("stdout", "print", <<AMI_ID(ami_id)>>)>>
          /\ Exit(EXIT_SUCCESS)
       \/ /\ InProgress("build")
          /\ \E e \in Errors("build") :
                /\ log' = Append(log, Ev("raise", "build", e))
                /\ Exit(build_exit_code(e))
    /\ UNCHANGED <<heap, frame, exc, script_exists, created>>

CliNext ==
    \/ main_validate_files
    \/ main_load_config
    \/ main_AmiBuilder
    \/ main_build

CliSpec == CliInit /\ [][CliNext]_vars

(***************************************************************************)
(* Two builds against one cloud account.  Each build b runs the steps of   *)
(* _run_build from create_key_pair to create_ami and then _cleanup, and    *)
(* the steps of the two builds interleave freely.  pc, heap and frame are  *)
(* functions of the build; created is the account: every transient         *)
(* resource ever created there, with the build that created it and the     *)
(* build that removed it (0 while it is alive).  frame[b].targets collects *)
(* the operation and target of every cleanup call of build b, and          *)
(* frame[b].answer is the answer of the call build b is waiting in.        *)
(***************************************************************************)
Builds == {1, 2}

\* The account's answers: names are unique among the live resources of a kind,
\* ids are never handed out twice.
Alive(kind, id) == {r \in created : r.kind = kind /\ r.id = id /\ r.removed_by = 0}
Fresh(kind, pool) == pool[1 + Cardinality({r \in created : r.kind = kind})]
Added(kind, id, b) ==
    created \cup {[kind |-> kind, id |-> id, owner |-> b, removed_by |-> 0]}
Removed(kind, id, b) ==
    {IF r \in Alive(kind, id) THEN [r EXCEPT !.removed_by = b] ELSE r : r \in created}

\* No call of the build is waiting for its answer.
NoAnswer == [kind |-> "none", val |-> None]

TwoBuildsInit ==
    /\ pc = [b \in Builds |-> "create_key_pair"]
    /\ log = <<>>
    /\ heap = [b \in Builds |-> BuildState]
    /\ frame \in [Builds -> {[unique_id |-> u, targets |-> {}, answer |-> NoAnswer] :
                                u \in UniqueIds}]
    /\ exc = NoExc
    /\ outcome = [kind |-> "running", val |-> <<>>]
    /\ script_exists \in BOOLEAN
    /\ created = {}

\* The names _run_build (lines 126-128) and _cleanup (210-211) derive.
name_of(b) == resource_name(frame[b].unique_id)

\* A step of _run_build raises: the finally clause of build runs _cleanup.
step_raises(b) ==
    /\ pc' = [pc EXCEPT ![b] = "terminate_instance"]
    /\ UNCHANGED <<heap, created>>

\* A call whose answer the build stores in its BuildState takes two steps: the
\* account serves the request while the build waits, and the answer reaches the
\* build, which assigns it or lets the error leave _run_build.  The other build
\* takes steps in between.
serve(b, kind, v) ==
    /\ frame' = [frame EXCEPT ![b].answer = [kind |-> kind, val |-> v]]
    /\ UNCHANGED <<pc, heap>>
assign(b, field, next) ==
    /\ frame[b].answer.kind = "returns"
    /\ heap' = [heap EXCEPT ![b][field] = frame[b].answer.val]
    /\ pc' = [pc EXCEPT ![b] = next]
    /\ frame' = [frame EXCEPT ![b].answer = NoAnswer]
    /\ UNCHANGED created
call_raises(b) ==
    /\ frame[b].answer.kind = "raises"
    /\ step_raises(b)
    /\ frame' = [frame EXCEPT ![b].answer = NoAnswer]

\* builder.py 135.
build_create_key_pair(b) ==
    /\ pc[b] = "create_key_pair"
    /\ \/ /\ frame[b].answer = NoAnswer
          /\ Alive("key", name_of(b)) = {}
          /\ created' = Added("key", name_of(b), b)
          /\ serve(b, "returns", KeyPool[b])
       \/ /\ frame[b].answer = NoAnswer
          /\ serve(b, "raises", None)
          /\ UNCHANGED created
       \/ assign(b, "key_material", "create_security_group")
       \/ call_raises(b)
    /\ UNCHANGED <<log, exc, outcome, script_exists>>

\* builder.py 138-140: the group is created under the build's name and recorded
\* by the id the account gives it.
build_create_security_group(b) ==
    /\ pc[b] = "create_security_group"
    /\ \/ /\ frame[b].answer = NoAnswer
          /\ Alive("sg_name", name_of(b)) = {}
          /\ created' = Added("sg", Fresh("sg", SgPool), b)
                           \cup {[kind |-> "sg_name", id |-> name_of(b), owner |-> b,
                                  removed_by |-> 0]}
          /\ serve(b, "returns", Fresh("sg", SgPool))
       \/ /\ frame[b].answer = NoAnswer
          /\ serve(b, "raises", None)
          /\ UNCHANGED created
       \/ assign(b, "sg_id", "create_launch_template")
       \/ call_raises(b)
    /\ UNCHANGED <<log, exc, outcome, script_exists>>

\* builder.py 147-155: nothing of the answer is kept.
build_create_launch_template(b) ==
    /\ pc[b] = "create_launch_template"
    /\ \/ /\ Alive("template", name_of(b)) = {}
          /\ created' = Added("template", name_of(b), b)
          /\ pc' = [pc EXCEPT ![b] = "create_fleet_instance"]
          /\ UNCHANGED heap
       \/ step_raises(b)
    /\ UNCHANGED <<log, frame, exc, outcome, script_exists>>

\* builder.py 187.
build_create_fleet_instance(b) ==
    /\ pc[b] = "create_fleet_instance"
    /\ \/ /\ frame[b].answer = NoAnswer
          /\ created' = Added("instance", Fresh("instance", InstancePool), b)
          /\ serve(b, "returns", Fresh("instance", InstancePool))
       \/ /\ frame[b].answer = NoAnswer
          /\ serve(b, "raises", None)
          /\ UNCHANGED created
       \/ assign(b, "instance_id", "wait_for_instance")
       \/ call_raises(b)
    /\ UNCHANGED <<log, exc, outcome, script_exists>>

\* builder.py 156-159: _launch_and_configure has returned.
after_launch(b) ==
    IF Recorded(heap[b].instance_id)
    THEN pc' = [pc EXCEPT ![b] = "create_ami"] /\ UNCHANGED <<heap, created>>
    ELSE step_raises(b)

\* builder.py 190-195: the address is a local of _launch_and_configure; with a
\* setup script the key material is checked before the script runs.
build_wait_for_instance(b) ==
    /\ pc[b] = "wait_for_instance"
    /\ \/ /\ script_exists
          /\ IF Recorded(heap[b].key_material)
             THEN pc' = [pc EXCEPT ![b] = "run_setup_script"] /\ UNCHANGED <<heap, created>>
             ELSE step_raises(b)
       \/ /\ ~script_exists
          /\ after_launch(b)
       \/ step_raises(b)
    /\ UNCHANGED <<log, frame, exc, outcome, script_exists>>

\* builder.py 198-205.
build_run_setup_script(b) ==
    /\ pc[b] = "run_setup_script"
    /\ \/ after_launch(b)
       \/ step_raises(b)
    /\ UNCHANGED <<log, frame, exc, outcome, script_exists>>

\* builder.py 161-167: the image id, or an empty one, becomes state.result and
\* _run_build returns; an error leaves it.  Either way _cleanup runs next.
build_create_ami(b) ==
    /\ pc[b] = "create_ami"
    /\ \/ /\ frame[b].answer = NoAnswer
          /\ \E v \in {ImagePool[b], Empty} : serve(b, "returns", v)
          /\ UNCHANGED created
       \/ /\ frame[b].answer = NoAnswer
          /\ serve(b, "raises", None)
          /\ UNCHANGED created
       \/ assign(b, "result", "terminate_instance")
       \/ call_raises(b)
    /\ UNCHANGED <<log, exc, outcome, script_exists>>

\* One call of _cleanup on the account.
cleanup_call(b, op, kind, id, next) ==
    /\ frame' = [frame EXCEPT ![b].targets = @ \cup {<<op, id>>}]
    /\ created' = Removed(kind, id, b)
    /\ pc' = [pc EXCEPT ![b] = next]

\* builder.py 213-216; an error of terminate_instance leaves _cleanup.
build_terminate_instance(b) ==
    /\ pc[b] = "terminate_instance"
    /\ \/ /\ Recorded(heap[b].instance_id)
          /\ cleanup_call(b, "terminate_instance", "instance", heap[b].instance_id,
                          "delete_launch_template")
       \/ /\ Recorded(heap[b].instance_id)
          /\ frame' = [frame EXCEPT ![b].targets =
                          @ \cup {<<"terminate_instance", heap[b].instance_id>>}]
          /\ pc' = [pc EXCEPT ![b] = "done"]
          /\ UNCHANGED created
       \/ /\ ~Recorded(heap[b].instance_id)
          /\ pc' = [pc EXCEPT ![b] = "delete_launch_template"]
          /\ UNCHANGED <<frame, created>>
    /\ UNCHANGED <<log, heap, exc, outcome, script_exists>>

\* builder.py 218.
build_delete_launch_template(b) ==
    /\ pc[b] = "delete_launch_template"
    /\ cleanup_call(b, "delete_launch_template", "template", name_of(b), "delete_key_pair")
    /\ UNCHANGED <<log, heap, exc, outcome, script_exists>>

\* builder.py 220-222.
build_delete_key_pair(b) ==
    /\ pc[b] = "delete_key_pair"
    /\ cleanup_call(b, "delete_key_pair", "key", name_of(b), "delete_security_group")
    /\ UNCHANGED <<log, heap, exc, outcome, script_exists>>

\* builder.py 224-227; the group's name is free again once the group is gone.
build_delete_security_group(b) ==
    /\ pc[b] = "delete_security_group"
    /\ \/ /\ Recorded(heap[b].sg_id)
          /\ frame' = [frame EXCEPT ![b].targets =
                          @ \cup {<<"delete_security_group", heap[b].sg_id>>}]
          /\ created' =
                {IF r.kind = "sg_name" /\ r.removed_by = 0
                    /\ \E g \in Alive("sg", heap[b].sg_id) : g.owner = r.owner
                 THEN [r EXCEPT !.removed_by = b] ELSE r :
                    r \in Removed("sg", heap[b].sg_id, b)}
       \/ /\ ~Recorded(heap[b].sg_id)
          /\ UNCHANGED <<frame, created>>
    /\ pc' = [pc EXCEPT ![b] = "done"]
    /\ UNCHANGED <<log, heap, exc, outcome, script_exists>>

TwoBuildsNext ==
    \/ \E b \in Builds : build_create_key_pair(b)
    \/ \E b \in Builds : build_create_security_group(b)
    \/ \E b \in Builds : build_create_launch_template(b)
    \/ \E b \in Builds : build_create_fleet_instance(b)
    \/ \E b \in Builds : build_wait_for_instance(b)
    \/ \E b \in Builds : build_run_setup_script(b)
    \/ \E b \in Builds : build_create_ami(b)
    \/ \E b \in Builds : build_terminate_instance(b)
    \/ \E b \in Builds : build_delete_launch_template(b)
    \/ \E b \in Builds : build_delete_key_pair(b)
    \/ \E b \in Builds : build_delete_security_group(b)

TwoBuildsSpec == TwoBuildsInit /\ [][TwoBuildsNext]_vars

(***************************************************************************)
(* The two builder versions side by side: orfmi/builder.py and             *)
(* ormi/builder.py run on the same collaborator outcomes.  pc, log, heap,  *)
(* frame, exc and outcome are functions of the version.  A collaborator    *)
(* call is one step here (the call and its outcome are logged together);   *)
(* when both versions are about to call the same collaborator they take    *)
(* the step together and get the same outcome.  A version that has parted  *)
(* from the other one goes on alone.                                       *)
(***************************************************************************)
Versions == {"orfmi", "ormi"}

\* ormi/builder.py 93-95: f"ormi-{unique_id}".
ormi_name(uid) ==
    CASE uid = "uid-a" -> "ormi-uid-a"
      [] uid = "uid-b" -> "ormi-uid-b"

\* The name a version gives to its key pair, launch template and security group.
name_in(v) ==
    IF v = "orfmi" THEN resource_name(frame[v].unique_id)
    ELSE ormi_name(frame[v].unique_id)

BeforeTry == {"generate_unique_id", "create_ec2_client"}
Pipeline ==
    {"get_vpc_from_subnet", "create_key_pair", "create_security_group",
     "lookup_source_ami", "create_launch_template", "create_fleet_instance",
     "wait_for_instance", "run_setup_script", "create_ami"}
Cleanup ==
    {"terminate_instance", "delete_launch_template", "delete_key_pair",
     "delete_security_group"}
Collaborators == BeforeTry \cup Pipeline \cup Cleanup

\* What a collaborator may return.
Results(op) ==
    CASE op = "generate_unique_id" -> UniqueIds
      [] op = "create_ec2_client" -> {"ec2"}
      [] op = "get_vpc_from_subnet" -> VpcIds
      [] op = "create_key_pair" -> Vals(KeyPool) \cup {Empty}
      [] op = "create_security_group" -> Vals(SgPool) \cup {Empty}
      [] op = "lookup_source_ami" -> SourceAmiIds
      [] op = "create_fleet_instance" -> Vals(InstancePool) \cup {Empty}
      [] op = "wait_for_instance" -> PublicIps
      [] op = "create_ami" -> Vals(ImagePool) \cup {Empty}
      [] OTHER -> {None}

\* The outcomes of one call: a returned value or a raised error.
Outcomes(op) ==
    {[kind |-> "ret", val |-> <<r>>] : r \in Results(op)}
    \cup {[kind |-> "raise", val |-> e] : e \in Errors(op)}

EquivInit ==
    /\ pc = [v \in Versions |-> "generate_unique_id"]
    /\ log = [v \in Versions |-> <<>>]
    /\ heap = [v \in Versions |-> BuildState]
    /\ frame = [v \in Versions |->
                   [unique_id |-> None, vpc_id |-> None, source_ami_id |-> None,
                    public_ip |-> None]]
    /\ exc = [v \in Versions |-> NoExc]
    /\ outcome = [v \in Versions |-> [kind |-> "running", val |-> <<>>]]
    /\ script_exists \in BOOLEAN
    /\ created = {}

\* The arguments version v gives to the collaborator it is about to call.
args_in(v) ==
    CASE pc[v] = "generate_unique_id" -> <<>>
      [] pc[v] = "create_ec2_client" -> <<Config.region>>
      [] pc[v] = "get_vpc_from_subnet" -> <<Config.subnet_ids[1]>>
      [] pc[v] = "create_key_pair" -> <<name_in(v)>>
      [] pc[v] = "create_security_group" ->
            <<frame[v].vpc_id, name_in(v), Config.platform>>
      [] pc[v] = "lookup_source_ami" -> <<Config.source_ami>>
      [] pc[v] = "create_launch_template" ->
            <<name_in(v), frame[v].source_ami_id, heap[v].sg_id, name_in(v)>>
      [] pc[v] = "create_fleet_instance" -> <<name_in(v)>>
      [] pc[v] = "wait_for_instance" -> <<heap[v].instance_id>>
      [] pc[v] = "run_setup_script" ->
            ssh_config(frame[v].public_ip, heap[v].key_material)
                \o <<setup_script, extra_files>>
      [] pc[v] = "create_ami" -> <<heap[v].instance_id, Config.ami_name>>
      [] pc[v] = "terminate_instance" -> <<heap[v].instance_id>>
      [] pc[v] = "delete_launch_template" -> <<name_in(v)>>
      [] pc[v] = "delete_key_pair" -> <<name_in(v)>>
      [] pc[v] = "delete_security_group" -> <<heap[v].sg_id>>

\* Mutant: ormi deletes the key pair before the launch template.
ormi_next_KeyFirst(op) ==
    CASE op = "generate_unique_id" -> "create_ec2_client"
      [] op = "create_ec2_client" -> "get_vpc_from_subnet"
      [] op = "get_vpc_from_subnet" -> "create_key_pair"
      [] op = "create_key_pair" -> "create_security_group"
      [] op = "create_security_group" -> "lookup_source_ami"
      [] op = "lookup_source_ami" -> "create_launch_template"
      [] op = "create_launch_template" -> "create_fleet_instance"
      [] op = "create_fleet_instance" -> "wait_for_instance"
      [] op = "wait_for_instance" -> "setup_script_exists"
      [] op = "run_setup_script" -> "create_ami"
      [] op = "create_ami" -> "terminate_instance"
      [] op = "terminate_instance" -> "delete_key_pair"
      [] op = "delete_key_pair" -> "delete_launch_template"
      [] op = "delete_launch_template" -> "delete_security_group"
      [] op = "delete_security_group" -> "end_finally"

\* ormi/builder.py 82-203: the statement that follows the return of a collaborator.
\* The finally clause begins at the guard of terminate_instance.
ormi_next(op) ==
    CASE op = "generate_unique_id" -> "create_ec2_client"
      [] op = "create_ec2_client" -> "get_vpc_from_subnet"
      [] op = "get_vpc_from_subnet" -> "create_key_pair"
      [] op = "create_key_pair" -> "create_security_group"
      [] op = "create_security_group" -> "lookup_source_ami"
      [] op = "lookup_source_ami" -> "create_launch_template"
      [] op = "create_launch_template" -> "create_fleet_instance"
      [] op = "create_fleet_instance" -> "wait_for_instance"
      [] op = "wait_for_instance" -> "setup_script_exists"
      [] op = "run_setup_script" -> "create_ami"
      [] op = "create_ami" -> "terminate_instance"
      [] op = "terminate_instance" -> "delete_launch_template"
      [] op = "delete_launch_template" -> "delete_key_pair"
      [] op = "delete_key_pair" -> "delete_security_group"
      [] op = "delete_security_group" -> "end_finally"

\* orfmi/builder.py: the same, read from the tables of the pipeline and of _cleanup.
orfmi_next(op) ==
    CASE op = "generate_unique_id" -> "create_ec2_client"
      [] op = "create_ec2_client" -> "get_vpc_from_subnet"
      [] op = "create_ami" -> "terminate_instance"
      [] op = "delete_security_group" -> "end_finally"
      [] op \in Cleanup \ {"delete_security_group"} -> cleanup_after(op)
      [] OTHER -> after(op)

\* Where an error of collaborator op takes the build: out of build, into the
\* finally clause, or out of _cleanup.
on_raise(op) ==
    CASE op \in BeforeTry -> "done"
      [] op \in Pipeline -> "terminate_instance"
      [] op \in Cleanup -> "end_finally"

\* The state of version v after collaborator op gave outcome o.
pc_next(v, op, o) ==
    IF o.kind = "raise" THEN on_raise(op)
    ELSE IF v = "orfmi" THEN orfmi_next(op) ELSE ormi_next(op)
log_next(v, op, o) ==
    log[v] \o <<Ev("call", op, args_in(v)), Ev(o.kind, op, o.val)>>
heap_next(v, op, o) ==
    IF o.kind = "raise" THEN heap[v]
    ELSE CASE op = "create_key_pair" -> [heap[v] EXCEPT !.key_material = o.val[1]]
           [] op = "create_security_group" -> [heap[v] EXCEPT !.sg_id = o.val[1]]
           [] op = "create_fleet_instance" -> [heap[v] EXCEPT !.instance_id = o.val[1]]
           [] op = "create_ami" -> [heap[v] EXCEPT !.result = o.val[1]]
           [] OTHER -> heap[v]
frame_next(v, op, o) ==
    IF o.kind = "raise" THEN frame[v]
    ELSE CASE op = "generate_unique_id" -> [frame[v] EXCEPT !.unique_id = o.val[1]]
           [] op = "get_vpc_from_subnet" -> [frame[v] EXCEPT !.vpc_id = o.val[1]]
           [] op = "lookup_source_ami" -> [frame[v] EXCEPT !.source_ami_id = o.val[1]]
           [] op = "wait_for_instance" -> [frame[v] EXCEPT !.public_ip = o.val[1]]
           [] OTHER -> frame[v]
exc_next(v, op, o) ==
    IF o.kind = "raise" /\ op \notin BeforeTry THEN o.val ELSE exc[v]
outcome_next(v, op, o) ==
    IF o.kind = "raise" /\ op \in BeforeTry
    THEN [kind |-> "raised", val |-> o.val]
    ELSE outcome[v]

\* Version v is about to call a collaborator: the guards of _cleanup skip
\* terminate_instance and delete_security_group for an id that is not recorded.
Skips(v) ==
    \/ pc[v] = "terminate_instance" /\ ~Recorded(heap[v].instance_id)
    \/ pc[v] = "delete_security_group" /\ ~Recorded(heap[v].sg_id)
AtCall(v) == pc[v] \in Collaborators /\ ~Skips(v)
Over(v) == pc[v] = "done"

\* The versions in S call op and get outcome o.
Call(S, op, o) ==
    /\ pc' = [v \in Versions |-> IF v \in S THEN pc_next(v, op, o) ELSE pc[v]]
    /\ log' = [v \in Versions |-> IF v \in S THEN log_next(v, op, o) ELSE log[v]]
    /\ heap' = [v \in Versions |-> IF v \in S THEN heap_next(v, op, o) ELSE heap[v]]
    /\ frame' = [v \in Versions |-> IF v \in S THEN frame_next(v, op, o) ELSE frame[v]]
    /\ exc' = [v \in Versions |-> IF v \in S THEN exc_next(v, op, o) ELSE exc[v]]
    /\ outcome' = [v \in Versions |->
                      IF v \in S THEN outcome_next(v, op, o) ELSE outcome[v]]
    /\ UNCHANGED <<script_exists, created>>

\* Both versions call the same collaborator and get the same outcome.
collaborate ==
    \E op \in Collaborators :
        /\ \A v \in Versions : AtCall(v) /\ pc[v] = op
        /\ \E o \in Outcomes(op) : Call(Versions, op, o)

\* Version v calls a collaborator the other version is not about to call.
collaborate_alone(v) ==
    /\ AtCall(v)
    /\ \A w \in Versions \ {v} : Over(w) \/ (AtCall(w) /\ pc[w] # pc[v])
    /\ \E o \in Outcomes(pc[v]) : Call({v}, pc[v], o)

\* Version v raises e inside the pipeline: the finally clause runs.
raise_in(v, e) ==
    /\ log' = [log EXCEPT ![v] = Append(@, Ev("unwind", "_run_build", e))]
    /\ exc' = [exc EXCEPT ![v] = e]
    /\ pc' = [pc EXCEPT ![v] = "terminate_instance"]
    /\ UNCHANGED <<heap, frame, outcome, script_exists, created>>

goto(v, stmt) ==
    /\ pc' = [pc EXCEPT ![v] = stmt]
    /\ UNCHANGED <<log, heap, frame, exc, outcome, script_exists, created>>

\* orfmi/builder.py 193-195 and ormi/builder.py 161-162: only orfmi looks at the
\* key material before it runs the script.
version_setup_script_exists(v) ==
    /\ pc[v] = "setup_script_exists"
    /\ \/ /\ ~script_exists
          /\ goto(v, IF v = "orfmi" THEN "check_instance_id" ELSE "create_ami")
       \/ /\ script_exists
          /\ v = "orfmi" => ~Falsy(heap[v].key_material)
          /\ goto(v, "run_setup_script")
       \/ /\ script_exists
          /\ v = "orfmi"
          /\ Falsy(heap[v].key_material)
          /\ raise_in(v, <<"RuntimeError", "Key material not set">>)

\* orfmi/builder.py 158-159; ormi/builder.py has no such check.
orfmi_check_instance_id ==
    /\ pc["orfmi"] = "check_instance_id"
    /\ \/ /\ ~Falsy(heap["orfmi"].instance_id)
          /\ goto("orfmi", "create_ami")
       \/ /\ Falsy(heap["orfmi"].instance_id)
          /\ raise_in("orfmi", <<"RuntimeError", "Instance ID not set after launch">>)

\* The guards of _cleanup, when the id is not recorded.
version_skip(v) ==
    /\ Skips(v)
    /\ goto(v, IF pc[v] = "terminate_instance" THEN "delete_launch_template"
               ELSE "end_finally")

\* After the finally clause: the error in flight leaves build, or build checks
\* the result and returns it.
version_end_finally(v) ==
    /\ pc[v] = "end_finally"
    /\ LET e == IF exc[v] # NoExc THEN exc[v]
                ELSE <<"RuntimeError", "AMI build failed: no AMI ID returned">>
       IN IF exc[v] # NoExc \/ Falsy(heap[v].result)
          THEN /\ log' = [log EXCEPT ![v] = Append(@, Ev("unwind", "build", e))]
               /\ outcome' = [outcome EXCEPT ![v] = [kind |-> "raised", val |-> e]]
          ELSE /\ log' = [log EXCEPT ![v] = Append(@, Ev("leave", "build",
                                                       <<heap[v].result>>))]
               /\ outcome' = [outcome EXCEPT ![v] =
                                 [kind |-> "returned", val |-> <<heap[v].result>>]]
    /\ pc' = [pc EXCEPT ![v] = "done"]
    /\ UNCHANGED <<heap, frame, exc, script_exists, created>>

EquivNext ==
    \/ collaborate
    \/ \E v \in Versions : collaborate_alone(v)
    \/ \E v \in Versions : version_setup_script_exists(v)
    \/ orfmi_check_instance_id
    \/ \E v \in Versions : version_skip(v)
    \/ \E v \in Versions : version_end_finally(v)

EquivSpec == EquivInit /\ [][EquivNext]_vars

(***************************************************************************)
(* Reading the event log.                                                  *)
(***************************************************************************)
Done == pc = "done"
Events(ev, op) == {i \in DOMAIN log : log[i].ev = ev /\ log[i].op = op}
Calls(op) == Events("call", op)
Exits(fn) == Events("leave", fn) \cup Events("unwind", fn)
PipelineOrder ==
    <<"get_vpc_from_subnet", "create_key_pair", "create_security_group",
      "lookup_source_ami", "create_launch_template", "create_fleet_instance",
      "wait_for_instance", "run_setup_script", "create_ami">>
CleanupOrder ==
    <<"terminate_instance", "delete_launch_template", "delete_key_pair",
      "delete_security_group">>
Ops(order) == {order[k] : k \in DOMAIN order}
Rank(order, op) == CHOOSE k \in DOMAIN order : order[k] = op
\* The BuildState object build created.
TheState == heap[frame.state]
PipelineStarted == Events("enter", "_run_build") # {}
CleanupRaised == \E i \in DOMAIN log : log[i].ev = "raise" /\ log[i].op \in Ops(CleanupOrder)
\* The operation that removes a transient resource of the given kind.
RemovalOp(kind) ==
    CASE kind = "instance" -> "terminate_instance"
      [] kind = "launch_template" -> "delete_launch_template"
      [] kind = "key_pair" -> "delete_key_pair"
      [] kind = "security_group" -> "delete_security_group"

\* No collaborator call raised; the creating calls returned a non-empty value.
NoCallRaised == \A i \in DOMAIN log : log[i].ev # "raise"
EveryIdReturned ==
    \A i \in DOMAIN log :
        (log[i].ev = "ret"
         /\ log[i].op \in {"create_key_pair", "create_fleet_instance", "create_ami"})
            => ~Falsy(log[i].val[1])
\* The positions of the calls to cleanup and to pipeline operations.
CleanupCalls == {i \in DOMAIN log : log[i].ev = "call" /\ log[i].op \in Ops(CleanupOrder)}
PipelineCalls == {i \in DOMAIN log : log[i].ev = "call" /\ log[i].op \in Ops(PipelineOrder)}
\* The positions at which the pipeline failed: a collaborator raised, or
\* _run_build was left by an error.
PipelineFailures ==
    {i \in DOMAIN log : \/ log[i].ev = "raise" /\ log[i].op \in Ops(PipelineOrder)
                        \/ log[i].ev = "unwind" /\ log[i].op = "_run_build"}
\* What the step op had returned before event i, or None.
ReturnedBefore(op, i) ==
    IF \E k \in Events("ret", op) : k < i
    THEN log[CHOOSE k \in Events("ret", op) : k < i].val[1]
    ELSE None

\* The step whose return value a BuildState field records.
FieldStep(field) ==
    CASE field = "key_material" -> "create_key_pair"
      [] field = "sg_id" -> "create_security_group"
      [] field = "instance_id" -> "create_fleet_instance"
      [] field = "result" -> "create_ami"

\* Reading the log of run_setup_script: the attempts of connect_ssh, whether
\* it handed out a session, and the steps made on the session.
Attempts == Cardinality(Calls("connect"))
FailedAttempts == Cardinality(Events("raise", "connect"))
HasSession == Events("leave", "connect_ssh") # {}
IsStepCall(e) == e.ev = "call" /\ e.op \in {"upload_file", "chmod", "run_ssh_command"}
StepCalls == SelectSeq(log, IsStepCall)
StepFailures ==
    {i \in DOMAIN log : log[i].ev = "raise"
                        /\ log[i].op \in {"upload_file", "chmod", "run_ssh_command"}}
\* The steps of a run_setup_script in which nothing fails.
ExpectedSteps ==
    <<Ev("call", "upload_file", <<setup_script>>), Ev("call", "chmod", <<setup_script>>),
      Ev("call", "run_ssh_command", <<setup_script>>)>>
    \o [k \in 1..Len(frame.extra_files) |->
           Ev("call", "upload_file", <<frame.extra_files[k]>>)]
ExtraUploads ==
    {i \in Calls("upload_file") : log[i].val # <<setup_script>>}
\* The states of the Remote Provisioner, and the state an event enters, if any.
ProvisionerStates ==
    <<"DISCONNECTED", "CONNECTING", "CONNECTED", "UPLOADING", "EXECUTING", "CLOSED">>
Entered(e) ==
    CASE e.ev = "call" /\ e.op = "connect" -> "CONNECTING"
      [] e.ev = "leave" /\ e.op = "connect_ssh" -> "CONNECTED"
      [] e.ev = "call" /\ e.op \in {"upload_file", "chmod"} -> "UPLOADING"
      [] e.ev = "call" /\ e.op = "run_ssh_command" -> "EXECUTING"
      [] e.ev = "call" /\ e.op = "close" -> "CLOSED"
      [] OTHER -> "DISCONNECTED"
Transitions == {i \in DOMAIN log : Entered(log[i]) # "DISCONNECTED"}
StateRank(i) == Rank(ProvisionerStates, Entered(log[i]))

\* Reading the log of delete_security_group: the attempts made on the gateway.
SgAttempts == Cardinality(Calls("ec2.delete_security_group"))
SgFailures == Cardinality(Events("raise", "ec2.delete_security_group"))
SgDeleted == Events("ret", "ec2.delete_security_group") # {}

\* Reading the logs of the two builder versions: the collaborator events of
\* version v with the 'orfmi-' / 'ormi-' prefix of a name taken off.
Unprefixed(x) ==
    CASE x \in {"orfmi-uid-a", "ormi-uid-a"} -> "uid-a"
      [] x \in {"orfmi-uid-b", "ormi-uid-b"} -> "uid-b"
      [] OTHER -> x
IsCollaboratorEvent(e) == e.ev \in {"call", "ret", "raise"}
CollaboratorEvents(v) ==
    LET l == SelectSeq(log[v], IsCollaboratorEvent)
    IN [i \in DOMAIN l |->
           [l[i] EXCEPT !.val = [k \in DOMAIN l[i].val |-> Unprefixed(l[i].val[k])]]]
\* create_key_pair and create_fleet_instance returned non-empty values so far.
NonEmptyKeyAndInstance ==
    \A v \in Versions : \A i \in DOMAIN log[v] :
        (log[v][i].ev = "ret"
         /\ log[v][i].op \in {"create_key_pair", "create_fleet_instance"})
            => log[v][i].val # <<Empty>>

(***************************************************************************)
(* C1 (as claimed): when build has returned or raised, every transient     *)
(* resource the pipeline created (key pair, security group, launch         *)
(* template, instance) has had its delete/terminate operation invoked.     *)
(* The code violates it: terminate_instance raising leaves _cleanup.       *)
(***************************************************************************)
C1_EveryCreatedResourceRemoved ==
    Done =>
        \A r \in created :
            \E i \in Calls(RemovalOp(r[1])) : log[i].val = <<r[2]>>

(***************************************************************************)
(* C2: if the pipeline was started, _cleanup is entered exactly once,      *)
(* after _run_build returned or raised and before build returns or raises, *)
(* and with the reference to the BuildState that _run_build was given.     *)
(***************************************************************************)
C2_CleanupExactlyOnce ==
    /\ Cardinality(Events("enter", "_cleanup")) <= 1
    /\ \A i \in Events("enter", "_cleanup") :
          /\ \E j \in Exits("_run_build") : j < i
          /\ \A k \in Events("enter", "_run_build") :
                /\ log[k].val = log[i].val
                /\ log[i].val = <<frame.state>>
          /\ \A m \in Exits("build") : i < m
    /\ (PipelineStarted /\ Exits("build") # {}) =>
          Cardinality(Events("enter", "_cleanup")) = 1

C2_Witness ==
    /\ Done
    /\ Events("unwind", "_run_build") # {}
    /\ Events("enter", "_cleanup") # {}
    /\ TheState.sg_id # None

(***************************************************************************)
(* C3 (as claimed): a failing cleanup operation never changes the outcome  *)
(* of build: the image id is still returned when the pipeline succeeded,   *)
(* the pipeline's own error is still raised when the pipeline failed.      *)
(* The code violates it: the error of terminate_instance leaves build.     *)
(***************************************************************************)
C3_CleanupFailureKeepsOutcome ==
    (Done /\ CleanupRaised) =>
        /\ \A i \in Events("leave", "_run_build") :
              ~Falsy(TheState.result) =>
                  outcome = [kind |-> "returned", val |-> <<TheState.result>>]
        /\ \A i \in Events("unwind", "_run_build") :
              outcome = [kind |-> "raised", val |-> log[i].val]

(***************************************************************************)
(* C4 (as claimed): a failing cleanup step does not prevent the following  *)
(* ones: once _cleanup has run, delete_launch_template and delete_key_pair *)
(* were invoked, and delete_security_group if a group id was recorded.     *)
(* The code violates it: no cleanup step is guarded.                       *)
(***************************************************************************)
C4_CleanupStepsGuarded ==
    (Done /\ Events("enter", "_cleanup") # {}) =>
        /\ Calls("delete_launch_template") # {}
        /\ Calls("delete_key_pair") # {}
        /\ Recorded(TheState.sg_id) => Calls("delete_security_group") # {}

(***************************************************************************)
(* C5: once build has returned or raised, an instance id returned by       *)
(* create_fleet_instance has been given to terminate_instance exactly      *)
(* once, whatever happened to the later steps; with no instance id         *)
(* recorded, terminate_instance was never invoked.                         *)
(***************************************************************************)
C5_TerminateOncePerInstance ==
    /\ Cardinality(Calls("terminate_instance")) <= 1
    /\ \A i \in Calls("terminate_instance") : \A m \in Exits("build") : i < m
    /\ Done =>
          /\ \A i \in Events("ret", "create_fleet_instance") :
                ~Falsy(log[i].val[1]) =>
                    /\ Cardinality(Calls("terminate_instance")) = 1
                    /\ \A j \in Calls("terminate_instance") :
                          log[j].val = log[i].val /\ i < j
          /\ (PipelineStarted /\ Falsy(TheState.instance_id)) =>
                Calls("terminate_instance") = {}

\* A later step failed and the instance was still terminated.
C5_Witness ==
    /\ Done
    /\ Events("raise", "create_ami") # {}
    /\ \E j \in Calls("terminate_instance") : log[j].val = <<TheState.instance_id>>

(***************************************************************************)
(* C6: when every collaborator call succeeds (it returns, and              *)
(* create_key_pair, create_fleet_instance and create_ami return a          *)
(* non-empty value), build returns the image id create_ami returned; and   *)
(* whenever build returns a value, create_ami was invoked and returned     *)
(* that value.                                                             *)
(***************************************************************************)
C6_ReturnsCreatedImage ==
    /\ (Done /\ NoCallRaised /\ EveryIdReturned) =>
          /\ outcome.kind = "returned"
          /\ \E i \in Events("ret", "create_ami") : outcome.val = log[i].val
    /\ outcome.kind = "returned" =>
          /\ Calls("create_ami") # {}
          /\ \E i \in Events("ret", "create_ami") : outcome.val = log[i].val

C6_Witness ==
    /\ Done
    /\ NoCallRaised
    /\ outcome = [kind |-> "returned", val |-> <<ImagePool[2]>>]
    /\ TheState.instance_id = InstancePool[1]

(***************************************************************************)
(* C7: if create_fleet_instance fails, build fails, terminate_instance is  *)
(* not invoked, and delete_key_pair and delete_launch_template are each    *)
(* invoked exactly once.                                                   *)
(***************************************************************************)
C7_FleetFailureCleanup ==
    (Done /\ Events("raise", "create_fleet_instance") # {}) =>
        /\ outcome.kind = "raised"
        /\ Calls("terminate_instance") = {}
        /\ Cardinality(Calls("delete_key_pair")) = 1
        /\ Cardinality(Calls("delete_launch_template")) = 1

C7_Witness ==
    /\ Done
    /\ Events("raise", "create_fleet_instance") # {}
    /\ Calls("delete_key_pair") # {}

(***************************************************************************)
(* C8: the cleanup operations are invoked in the order terminate_instance, *)
(* delete_launch_template, delete_key_pair, delete_security_group, and     *)
(* delete_security_group is invoked only after terminate_instance has      *)
(* returned for a recorded instance.                                       *)
(***************************************************************************)
C8_CleanupOrder ==
    /\ \A i, j \in CleanupCalls :
          i < j => Rank(CleanupOrder, log[i].op) < Rank(CleanupOrder, log[j].op)
    /\ \A j \in Calls("delete_security_group") :
          /\ \E i \in Calls("delete_key_pair") : i < j
          /\ \E i \in Calls("delete_launch_template") : i < j
          /\ Recorded(TheState.instance_id) =>
                \E i \in Events("ret", "terminate_instance") : i < j
    /\ \A j \in Calls("delete_key_pair") :
          \E i \in Calls("delete_launch_template") : i < j

C8_Witness ==
    /\ Done
    /\ Calls("delete_security_group") # {}
    /\ Events("ret", "terminate_instance") # {}

(***************************************************************************)
(* C9: the pipeline invokes its operations in the order of PipelineOrder,  *)
(* run_setup_script only if the script exists, each only after every       *)
(* earlier one has returned, and never two at once.                        *)
(***************************************************************************)
C9_PipelineOrder ==
    /\ \A i, j \in PipelineCalls :
          i < j => Rank(PipelineOrder, log[i].op) < Rank(PipelineOrder, log[j].op)
    /\ \A j \in PipelineCalls :
          LET returned == {log[i].op : i \in {k \in 1..j : log[k].ev = "ret"}}
              earlier == {PipelineOrder[k] : k \in 1..(Rank(PipelineOrder, log[j].op) - 1)}
          IN earlier \ returned \subseteq
                 (IF script_exists THEN {} ELSE {"run_setup_script"})
    /\ Calls("run_setup_script") # {} => script_exists
    /\ \A i \in DOMAIN log :
          (log[i].ev = "call" /\ i < Len(log)) =>
              log[i + 1].op = log[i].op /\ log[i + 1].ev \in {"ret", "raise"}

C9_Witness ==
    /\ Calls("create_ami") # {}
    /\ Calls("run_setup_script") # {}
    /\ Done

(***************************************************************************)
(* C10: once a pipeline step has failed, no later pipeline step is         *)
(* invoked, build raises, and each BuildState field holds the value its    *)
(* step returned before the failure, or is unset.                          *)
(***************************************************************************)
C10_FailFast ==
    \A i \in PipelineFailures :
        /\ \A j \in PipelineCalls : j < i
        /\ Done => outcome.kind = "raised"
        /\ TheState.key_material = ReturnedBefore("create_key_pair", i)
        /\ TheState.sg_id = ReturnedBefore("create_security_group", i)
        /\ TheState.instance_id = ReturnedBefore("create_fleet_instance", i)
        /\ TheState.result = ReturnedBefore("create_ami", i)

C10_Witness ==
    /\ Done
    /\ Events("raise", "wait_for_instance") # {}
    /\ TheState.instance_id = InstancePool[1]
    /\ TheState.result = None

(***************************************************************************)
(* C11 (as claimed): if the setup script does not exist when the pipeline  *)
(* reaches the script step, run_setup_script is never invoked, create_ami  *)
(* is invoked on the launched instance, and build returns the image id     *)
(* create_ami produced.  The code violates the last part: the error of     *)
(* terminate_instance in _cleanup replaces the image id.                   *)
(***************************************************************************)
C11_SkipsMissingScript ==
    ~script_exists =>
        /\ Calls("run_setup_script") = {}
        /\ (Done /\ Events("ret", "wait_for_instance") # {}
                 /\ Recorded(TheState.instance_id)) =>
              \E i \in Calls("create_ami") : log[i].val[1] = TheState.instance_id
        /\ \A i \in Events("ret", "create_ami") :
              (Done /\ ~Falsy(log[i].val[1])) =>
                  outcome = [kind |-> "returned", val |-> log[i].val]

(***************************************************************************)
(* C12 (as claimed): run_setup_script is invoked at most once per build;   *)
(* if the script exists and wait_for_instance has returned, it is invoked  *)
(* exactly once, after wait_for_instance returned and before create_ami,   *)
(* with the address wait_for_instance returned, the key material           *)
(* create_key_pair returned, the configured username, timeout and retry    *)
(* count, the script path and the extra files.  The code does not invoke   *)
(* it when create_key_pair returned empty key material.                    *)
(***************************************************************************)
C12_RunsScriptOnce ==
    /\ Cardinality(Calls("run_setup_script")) <= 1
    /\ \A i \in Calls("run_setup_script") :
          /\ \E w \in Events("ret", "wait_for_instance") :
                w < i /\ log[i].val[1] = log[w].val[1]
          /\ \E k \in Events("ret", "create_key_pair") :
                k < i /\ log[i].val[2] = log[k].val[1]
          /\ log[i].val = <<log[i].val[1], log[i].val[2], Config.ssh.username,
                            Config.ssh.timeout, Config.ssh.retries,
                            setup_script, extra_files>>
          /\ \A a \in Calls("create_ami") : i < a
    /\ (script_exists /\ pc \notin {"setup_script_exists", "run_setup_script"}) =>
          \A w \in Events("ret", "wait_for_instance") :
              Cardinality(Calls("run_setup_script")) = 1

(***************************************************************************)
(* C12 (amended): run_setup_script is invoked at most once per build, and  *)
(* every invocation comes after wait_for_instance returned and before      *)
(* create_ami, with the address wait_for_instance returned, the key        *)
(* material create_key_pair returned, the configured username, timeout and *)
(* retry count, the script path and the extra files.  If the script exists *)
(* and wait_for_instance has returned, it is invoked exactly once when     *)
(* create_key_pair returned key material; when the key material is empty   *)
(* it is not invoked and _run_build raises RuntimeError 'Key material not  *)
(* set', and create_ami is not invoked.                                    *)
(***************************************************************************)
C12_RunsScriptOnceWithKey ==
    /\ Cardinality(Calls("run_setup_script")) <= 1
    /\ \A i \in Calls("run_setup_script") :
          /\ \E w \in Events("ret", "wait_for_instance") :
                w < i /\ log[i].val[1] = log[w].val[1]
          /\ \E k \in Events("ret", "create_key_pair") :
                k < i /\ log[i].val[2] = log[k].val[1] /\ log[k].val[1] \notin {None, Empty}
          /\ log[i].val = <<log[i].val[1], log[i].val[2], Config.ssh.username,
                            Config.ssh.timeout, Config.ssh.retries,
                            setup_script, extra_files>>
          /\ \A a \in Calls("create_ami") : i < a
    /\ (script_exists /\ pc \notin {"setup_script_exists", "run_setup_script"}) =>
          \A w \in Events("ret", "wait_for_instance") :
              \A k \in Events("ret", "create_key_pair") :
                  IF log[k].val[1] \in {None, Empty}
                  THEN /\ Calls("run_setup_script") = {}
                       /\ Calls("create_ami") = {}
                       /\ \E j \in Events("unwind", "_run_build") :
                             log[j].val = <<"RuntimeError", "Key material not set">>
                  ELSE Cardinality(Calls("run_setup_script")) = 1

C12_Witness ==
    /\ Done
    /\ Calls("create_ami") # {}
    /\ \E i \in Calls("run_setup_script") :
          log[i].val[1] \in PublicIps /\ log[i].val[2] = KeyPool[2]

(***************************************************************************)
(* C13 (as claimed): if _run_build returns normally but BuildState.result  *)
(* is unset or empty, build raises RuntimeError 'AMI build failed: no AMI  *)
(* ID returned', and only after _cleanup has run.  The code violates it:   *)
(* the error of terminate_instance in _cleanup is raised instead.          *)
(***************************************************************************)
C13_NoResultFails ==
    (Done /\ Events("leave", "_run_build") # {} /\ Falsy(TheState.result)) =>
        /\ outcome = [kind |-> "raised",
                      val |-> <<"RuntimeError", "AMI build failed: no AMI ID returned">>]
        /\ \E i \in Exits("_cleanup") : \A m \in Exits("build") : i < m

(***************************************************************************)
(* C14: connect_ssh stops at the first successful connect: it returns the  *)
(* session at once and connect is not invoked again.  It does not give up  *)
(* before `retries` attempts have failed, so when connect fails retries-1  *)
(* times and then succeeds, the session is returned and connect was        *)
(* invoked exactly `retries` times.                                        *)
(***************************************************************************)
C14_ConnectRetriesUntilSuccess ==
    /\ \A i \in Events("ret", "connect") :
          /\ i < Len(log) /\ log[i + 1] = Ev("leave", "connect_ssh", <<"client">>)
          /\ \A j \in Calls("connect") : j < i
          /\ Attempts = FailedAttempts + 1
    /\ Events("unwind", "connect_ssh") # {} => FailedAttempts >= frame.retries
    /\ (HasSession /\ FailedAttempts = frame.retries - 1) =>
          /\ Attempts = frame.retries
          /\ frame.client = "client"
          /\ Events("unwind", "connect_ssh") = {}

C14_Witness ==
    /\ HasSession
    /\ frame.retries = 3
    /\ FailedAttempts = 2
    /\ Attempts = 3

(***************************************************************************)
(* C15: connect is never invoked more than `retries` times, and when every *)
(* attempt fails connect_ssh raises RuntimeError 'Failed to connect' after *)
(* exactly `retries` attempts.                                             *)
(***************************************************************************)
C15_ConnectFailsAfterRetries ==
    /\ Attempts <= frame.retries
    /\ \A i \in Events("unwind", "connect_ssh") :
          /\ log[i].val = FailedToConnect
          /\ Attempts = frame.retries
          /\ FailedAttempts = frame.retries
          /\ ~HasSession
    /\ (Done /\ ~HasSession) =>
          /\ Events("unwind", "connect_ssh") # {}
          /\ outcome = [kind |-> "raised", val |-> FailedToConnect]

C15_Witness ==
    /\ Done
    /\ frame.retries = 2
    /\ FailedAttempts = 2
    /\ outcome = [kind |-> "raised", val |-> FailedToConnect]

(***************************************************************************)
(* C16: once connect_ssh has returned a session, run_setup_script closes   *)
(* it exactly once before it returns or raises, whether every step         *)
(* succeeded or a step (script upload, chmod, execute, extra-file upload)  *)
(* failed; no step is made after the close, and nothing is closed when     *)
(* there is no session.                                                    *)
(***************************************************************************)
C16_SessionClosedOnce ==
    /\ Cardinality(Calls("close")) <= 1
    /\ \A c \in Calls("close") :
          /\ log[c].val = <<"client">>
          /\ \E i \in Events("leave", "connect_ssh") : i < c
          /\ \A j \in DOMAIN log : IsStepCall(log[j]) => j < c
          /\ \A m \in Exits("run_setup_script") : c < m
    /\ (Done /\ HasSession) =>
          /\ Cardinality(Calls("close")) = 1
          /\ Events("ret", "close") # {}
    /\ ~HasSession => Calls("close") = {}

C16_Witness ==
    /\ Done
    /\ \E i \in StepFailures : log[i].op = "upload_file" /\ Len(StepCalls) = 4
    /\ Events("ret", "close") # {}
    /\ outcome.kind = "raised"

(***************************************************************************)
(* C17: on the session run_setup_script uploads the setup script, marks it *)
(* executable, executes it, then uploads each extra file in the order      *)
(* given, then closes the session; a failing step ends the sequence.  When *)
(* nothing fails, with k extra files there are exactly k+1 uploads, one    *)
(* chmod and one execute, and every extra-file upload is after the execute.*)
(***************************************************************************)
C17_StepsInOrder ==
    /\ Len(StepCalls) <= Len(ExpectedSteps)
    /\ StepCalls = SubSeq(ExpectedSteps, 1, Len(StepCalls))
    /\ \A i \in DOMAIN log : IsStepCall(log[i]) => \E c \in Events("leave", "connect_ssh") : c < i
    /\ outcome.kind = "returned" =>
          /\ StepCalls = ExpectedSteps
          /\ Cardinality(Calls("upload_file")) = Len(frame.extra_files) + 1
          /\ Cardinality(Calls("chmod")) = 1
          /\ Cardinality(Calls("run_ssh_command")) = 1
          /\ \A x \in ExtraUploads : \E r \in Events("ret", "run_ssh_command") : r < x
          /\ \A c \in Calls("close") : \A i \in DOMAIN log : IsStepCall(log[i]) => i < c

C17_Witness ==
    /\ Done
    /\ outcome.kind = "returned"
    /\ Len(frame.extra_files) = 2
    /\ Cardinality(Calls("upload_file")) = 3

(***************************************************************************)
(* C18 (as claimed): the Remote Provisioner goes through DISCONNECTED,     *)
(* CONNECTING, CONNECTED, UPLOADING, EXECUTING, CLOSED in that order and   *)
(* never backwards; only CONNECTING is re-entered, at most `retries`       *)
(* times; nothing is uploaded or executed before CONNECTED; nothing is     *)
(* uploaded once EXECUTING has been entered.  run_setup_script violates    *)
(* it: each extra file is uploaded after the script has been executed.     *)
(***************************************************************************)
C18_StateMachine ==
    /\ \A i, j \in Transitions : i < j => StateRank(i) <= StateRank(j)
    /\ Attempts <= frame.retries
    /\ \A i, j \in Transitions :
          (i # j /\ Entered(log[i]) = Entered(log[j])) =>
              Entered(log[i]) \in {"CONNECTING", "UPLOADING"}
    /\ \A i \in DOMAIN log :
          IsStepCall(log[i]) => \E c \in Events("leave", "connect_ssh") : c < i
    /\ \A e \in Calls("run_ssh_command") : \A u \in Calls("upload_file") : u < e

(***************************************************************************)
(* C19: delete_security_group retries a delete the gateway refused: after  *)
(* a failed first attempt a second one is made, and once an attempt        *)
(* succeeds the wrapper returns without raising and makes no further       *)
(* attempt, so one failure followed by a success is exactly two attempts.  *)
(***************************************************************************)
C19_SgDeleteRetried ==
    /\ \A i \in Events("ret", "ec2.delete_security_group") :
          /\ \A j \in Calls("ec2.delete_security_group") : j < i
          /\ outcome = [kind |-> "returned", val |-> <<None>>]
          /\ SgAttempts = SgFailures + 1
    /\ (Done /\ SgFailures >= 1) => SgAttempts >= 2
    /\ (SgDeleted /\ SgFailures = 1) =>
          /\ SgAttempts = 2
          /\ Events("unwind", "delete_security_group") = {}
          /\ Cardinality(Events("leave", "delete_security_group")) = 1

C19_Witness ==
    /\ Done
    /\ SgDeleted
    /\ SgFailures = 1
    /\ SgAttempts = 2
    /\ log[3].val = <<"ClientError", "DependencyViolation">>

(***************************************************************************)
(* C20: delete_security_group never makes more than MaxSgAttempts          *)
(* attempts and never raises; when every attempt fails it has made exactly *)
(* MaxSgAttempts attempts and returned; and it always comes to an end.     *)
(***************************************************************************)
C20_SgDeleteGivesUp ==
    /\ [](/\ SgAttempts <= MaxSgAttempts
          /\ outcome.kind # "raised"
          /\ Events("unwind", "delete_security_group") = {}
          /\ (Done /\ ~SgDeleted) =>
                /\ SgAttempts = MaxSgAttempts
                /\ SgFailures = MaxSgAttempts
                /\ outcome = [kind |-> "returned", val |-> <<None>>])
    /\ <>Done

C20_Witness ==
    /\ Done
    /\ ~SgDeleted
    /\ SgFailures = MaxSgAttempts
    /\ outcome.kind = "returned"

(***************************************************************************)
(* C26: every build comes to an end, by returning an image id or by        *)
(* raising, and if the pipeline was started _cleanup has been entered and  *)
(* left before build is left.  (The two retry loops on the way are those   *)
(* of connect_ssh and delete_security_group, bounded by C15 and C20.)      *)
(***************************************************************************)
C26_BuildTerminates ==
    /\ <>Done
    /\ [](Done =>
            /\ outcome.kind \in {"returned", "raised"}
            /\ outcome.kind = "returned" => outcome.val[1] \in Vals(ImagePool)
            /\ PipelineStarted =>
                  \E c \in Exits("_cleanup") : \A m \in Exits("build") : c < m)

C26_Witness ==
    /\ Done
    /\ outcome.kind = "returned"
    /\ Calls("run_setup_script") # {}
    /\ Events("leave", "_cleanup") # {}

(***************************************************************************)
(* C27: a BuildState field changes only when it is unset, only at the      *)
(* return of the step that creates its resource, and to the value that     *)
(* step returned; it is never cleared or changed afterwards, so            *)
(* instance_id is still set when _cleanup runs.                            *)
(***************************************************************************)
C27_FieldsSetOnce ==
    [][\A r \in DOMAIN heap :
          \A field \in {"key_material", "sg_id", "instance_id", "result"} :
              heap'[r][field] # heap[r][field] =>
                  /\ heap[r][field] = None
                  /\ log' = Append(log, Ev("ret", FieldStep(field), <<heap'[r][field]>>))
                  /\ Last = Ev("call", FieldStep(field), Last.val)]_vars

C27_Witness ==
    /\ pc = "terminate_instance"
    /\ InProgress("terminate_instance")
    /\ TheState.instance_id = InstancePool[2]
    /\ TheState.key_material = KeyPool[1]
    /\ TheState.result = ImagePool[1]

(***************************************************************************)
(* C30: the pipeline never retries a step: each pipeline operation is      *)
(* invoked at most once in a build, also after it or another one failed.   *)
(***************************************************************************)
C30_NoPipelineRetry ==
    \A op \in Ops(PipelineOrder) : Cardinality(Calls(op)) <= 1

C30_Witness ==
    /\ Done
    /\ Events("raise", "run_setup_script") # {}
    /\ \A op \in Ops(PipelineOrder) \ {"create_ami"} : Cardinality(Calls(op)) = 1

(***************************************************************************)
(* C21: delete_key_pair and delete_launch_template invoke the underlying   *)
(* delete at most once, and when it reports an error they have invoked it  *)
(* exactly once and return without raising.                                *)
(***************************************************************************)
C21_DeleteSwallowsError ==
    \A w \in {<<"delete_key_pair", "ec2.delete_key_pair">>,
              <<"delete_launch_template", "ec2.delete_launch_template">>} :
        frame.fn = w[1] =>
            /\ Cardinality(Calls(w[2])) <= 1
            /\ \A i \in Calls(w[2]) : log[i].val = <<frame.name>>
            /\ Events("unwind", w[1]) = {}
            /\ Events("raise", w[2]) # {} =>
                  /\ Done
                  /\ Cardinality(Calls(w[2])) = 1
                  /\ Cardinality(Events("leave", w[1])) = 1
                  /\ outcome = [kind |-> "returned", val |-> <<None>>]

C21_Witness ==
    /\ Done
    /\ frame.fn = "delete_launch_template"
    /\ \E i \in Events("raise", "ec2.delete_launch_template") :
          log[i].val = <<"ClientError", "NotFound">>
    /\ outcome.kind = "returned"

(***************************************************************************)
(* C28: lookup_source_ami returns the id of a listed image whose creation  *)
(* date is the latest of the listing, in whatever order the images are     *)
(* listed, and raises RuntimeError 'No AMI found' when none is listed.     *)
(***************************************************************************)
C28_NewestImage ==
    (Done /\ frame.fn = "lookup_source_ami") =>
        IF frame.images = <<>>
        THEN outcome = [kind |-> "raised", val |-> NoAmiFound]
        ELSE /\ outcome.kind = "returned"
             /\ \E k \in DOMAIN frame.images :
                   /\ frame.images[k].ImageId = outcome.val[1]
                   /\ \A j \in DOMAIN frame.images :
                         frame.images[j].CreationDate <= frame.images[k].CreationDate

C28_Witness ==
    /\ Done
    /\ frame.fn = "lookup_source_ami"
    /\ Len(frame.images) = 3
    /\ frame.images[1].CreationDate = 1
    /\ frame.images[2].CreationDate = 3
    /\ frame.images[3].CreationDate = 2
    /\ outcome.val = <<"ami-b">>

(***************************************************************************)
(* C29: create_fleet_instance returns the first instance id of the answer, *)
(* which is recorded in BuildState; when the answer has no instance it     *)
(* raises RuntimeError 'Failed to create fleet instance' with the errors   *)
(* the provider reported, and BuildState.instance_id stays unset.          *)
(***************************************************************************)
C29_FirstInstanceOrError ==
    frame.fn = "create_fleet_instance" =>
        /\ ~Done => heap["state"].instance_id = None
        /\ Done =>
              IF frame.instances # <<>>
              THEN /\ outcome = [kind |-> "returned", val |-> <<frame.instances[1][1]>>]
                   /\ heap["state"].instance_id = frame.instances[1][1]
              ELSE /\ outcome.kind = "raised"
                   /\ SubSeq(outcome.val, 1, 2) =
                          <<"RuntimeError", "Failed to create fleet instance">>
                   /\ SubSeq(outcome.val, 3, Len(outcome.val)) = frame.errors
                   /\ heap["state"].instance_id = None

C29_Witness ==
    /\ Done
    /\ frame.fn = "create_fleet_instance"
    /\ frame.instances = <<>>
    /\ frame.errors = <<"Capacity error">>
    /\ outcome.kind = "raised"
    /\ heap["state"].instance_id = None

(***************************************************************************)
(* C22: main maps what build did to its exit code.  When build returns an  *)
(* image id, 'AMI_ID=<id>' is printed on stdout right after and the exit   *)
(* code is 0; when build raises RuntimeError the exit code is 1; when it   *)
(* raises any other exception the exit code is 2.                          *)
(***************************************************************************)
C22_ExitCodeFromBuild ==
    (Done /\ Calls("build") # {}) =>
        /\ outcome.kind = "exited"
        /\ IF Last.ev = "raise"
           THEN /\ Last.op = "build"
                /\ outcome.val = <<IF Last.val[1] = "RuntimeError" THEN 1 ELSE 2>>
           ELSE /\ log[Len(log) - 1].ev = "ret"
                /\ log[Len(log) - 1].op = "build"
                /\ Last.ev = "stdout"
                /\ <<log[Len(log) - 1].val[1], Last.val[1]>> \in
                       {<<"ami-1", "AMI_ID=ami-1">>, <<"ami-2", "AMI_ID=ami-2">>,
                        <<"ami-3", "AMI_ID=ami-3">>, <<"ami-4", "AMI_ID=ami-4">>}
                /\ outcome.val = <<0>>

C22_Witness ==
    /\ Done
    /\ Last = Ev("raise", "build", <<"ClientError", "build">>)
    /\ outcome.val = <<2>>

(***************************************************************************)
(* C23: a configuration error stops the run before the pipeline.  When the *)
(* configuration file or the setup file is missing, or load_config raises  *)
(* ConfigError or FileNotFoundError, AmiBuilder is never constructed,      *)
(* build is never invoked, and main exits with code 2.                     *)
(***************************************************************************)
C23_ConfigErrorStopsRun ==
    (\/ ~frame.config_exists
     \/ ~frame.setup_exists
     \/ \E i \in Events("raise", "load_config") :
           log[i].val[1] \in {"ConfigError", "FileNotFoundError"}) =>
        /\ Calls("AmiBuilder") = {}
        /\ Calls("build") = {}
        /\ pc \in {"validate_files", "done"}
        /\ Done => outcome = [kind |-> "exited", val |-> <<2>>]

C23_Witness ==
    /\ Done
    /\ frame.config_exists
    /\ ~frame.setup_exists
    /\ frame.data.kind = "mapping"
    /\ load_config(TRUE, frame.data) = NoError
    /\ outcome.val = <<2>>
    /\ Calls("AmiBuilder") = {}

(***************************************************************************)
(* C24: load_config on a configuration whose subnet_ids is an empty list   *)
(* raises ConfigError 'subnet_ids must be a non-empty list', and on one    *)
(* whose instance_types is an empty list raises ConfigError                *)
(* 'instance_types must be a non-empty list', every other required field   *)
(* being present and valid.                                                *)
(***************************************************************************)
C24_EmptyListMessage ==
    LET d == frame.data
        valid(f) == d[f].type = (IF f \in {"subnet_ids", "instance_types"}
                                 THEN "list" ELSE "str") /\ Truthy(d[f])
        others(f) == \A g \in Ops(required) \ {f} : valid(g)
        raised(m) == \E i \in Events("raise", "load_config") :
                        log[i].val = <<"ConfigError", m>>
    IN (Calls("load_config") # {} /\ ~frame.config_gone /\ d.kind = "mapping") =>
          /\ (d.subnet_ids = List(<<>>) /\ others("subnet_ids")) =>
                raised("subnet_ids must be a non-empty list")
          /\ (d.instance_types = List(<<>>) /\ others("instance_types")) =>
                raised("instance_types must be a non-empty list")

(***************************************************************************)
(* C25: two builds with different unique ids, interleaved in any way on    *)
(* one account, do not interfere.  Every cleanup call of a build targets   *)
(* the name derived from that build's unique id or the id recorded in that *)
(* build's BuildState, and no resource is removed by a build other than    *)
(* the one that created it.                                                *)
(***************************************************************************)
C25_BuildsDoNotInterfere ==
    frame[1].unique_id # frame[2].unique_id =>
        /\ \A r \in created : r.removed_by \in {0, r.owner}
        /\ \A b \in Builds : \A t \in frame[b].targets :
              /\ t[2] # None
              /\ t[1] = "terminate_instance" => t[2] = heap[b].instance_id
              /\ t[1] = "delete_security_group" => t[2] = heap[b].sg_id
              /\ t[1] \in {"delete_launch_template", "delete_key_pair"} =>
                    /\ t[2] = resource_name(frame[b].unique_id)
                    /\ \A c \in Builds \ {b} :
                          t[2] # resource_name(frame[c].unique_id)
              /\ \A r \in created : r.id = t[2] => r.owner = b

C25_Witness ==
    /\ frame[1].unique_id # frame[2].unique_id
    /\ \A b \in Builds : pc[b] = "done" /\ Cardinality(frame[b].targets) = 4
    /\ Cardinality(created) = 10
    /\ \A r \in created : r.removed_by = r.owner
    /\ heap[1].instance_id = "i-2"
    /\ heap[2].sg_id = "sg-2"
    /\ \A b \in Builds : heap[b].result = ImagePool[b]

(***************************************************************************)
(* C31 (as claimed): once build has returned or raised after the pipeline  *)
(* was started, delete_security_group was invoked exactly once, with the   *)
(* recorded id, if and only if a security-group id was recorded in         *)
(* BuildState; when the pipeline failed before create_security_group       *)
(* returned, it was never invoked.  The code violates it:                  *)
(* terminate_instance raising leaves _cleanup before the group is deleted. *)
(***************************************************************************)
C31_SgDeletedIffRecorded ==
    /\ Cardinality(Calls("delete_security_group")) <= 1
    /\ \A i \in Calls("delete_security_group") :
          /\ Recorded(TheState.sg_id)
          /\ log[i].val = <<TheState.sg_id>>
    /\ (Done /\ PipelineStarted) =>
          /\ Recorded(TheState.sg_id) => Cardinality(Calls("delete_security_group")) = 1
          /\ Events("ret", "create_security_group") = {} =>
                Calls("delete_security_group") = {}

(***************************************************************************)
(* C32 (as claimed): once build has returned or raised after the pipeline  *)
(* was started, wherever the pipeline failed (network resolution           *)
(* included) or if it succeeded, delete_launch_template was invoked        *)
(* exactly once and delete_key_pair exactly once, whether or not the       *)
(* template or the key pair was created.  The code violates it:            *)
(* terminate_instance raising leaves _cleanup before the two deletes.      *)
(***************************************************************************)
C32_TemplateAndKeyAlwaysDeleted ==
    /\ Cardinality(Calls("delete_launch_template")) <= 1
    /\ Cardinality(Calls("delete_key_pair")) <= 1
    /\ (Done /\ PipelineStarted) =>
          /\ Cardinality(Calls("delete_launch_template")) = 1
          /\ Cardinality(Calls("delete_key_pair")) = 1

(***************************************************************************)
(* C33: within one build a single unique id is generated, and the name     *)
(* given to create_key_pair, create_security_group, create_launch_template *)
(* (as template name and as key name), delete_launch_template and          *)
(* delete_key_pair is 'orfmi-' followed by that unique id; so each delete  *)
(* gets the name its create got.                                           *)
(***************************************************************************)
C33_OneNamePerBuild ==
    LET ids == Events("ret", "generate_unique_id")
        Named(name) ==
            \E g \in ids :
                <<log[g].val[1], name>> \in
                    {<<"uid-a", "orfmi-uid-a">>, <<"uid-b", "orfmi-uid-b">>}
        deleted_key == Calls("delete_key_pair")
        deleted_template == Calls("delete_launch_template")
    IN /\ Cardinality(ids) <= 1
       /\ \A i \in DOMAIN log :
             log[i].ev = "call" =>
                CASE log[i].op \in {"create_key_pair", "delete_key_pair",
                                    "delete_launch_template"} ->
                        Named(log[i].val[1])
                  [] log[i].op = "create_security_group" -> Named(log[i].val[2])
                  [] log[i].op = "create_launch_template" ->
                        /\ Named(log[i].val[1])
                        /\ Named(log[i].val[4])
                        /\ \A j \in deleted_template : log[i].val[1] = log[j].val[1]
                  [] OTHER -> TRUE
       /\ \A i \in Calls("create_key_pair") : \A j \in deleted_key :
             log[i].val[1] = log[j].val[1]

C33_Witness ==
    /\ Done
    /\ frame.unique_id = "uid-b"
    /\ \E i \in Calls("create_launch_template") : log[i].val[1] = "orfmi-uid-b"
    /\ \E i \in Calls("create_security_group") : log[i].val[2] = "orfmi-uid-b"
    /\ \E i \in Calls("delete_launch_template") : log[i].val = <<"orfmi-uid-b">>
    /\ \E i \in Calls("delete_key_pair") : log[i].val = <<"orfmi-uid-b">>

(***************************************************************************)
(* C34: each step is given what earlier steps of the same build returned.  *)
(* get_vpc_from_subnet gets the first configured subnet;                   *)
(* create_security_group gets the network id it returned;                  *)
(* create_launch_template gets the image id lookup_source_ami returned,    *)
(* the group id create_security_group returned and the key name            *)
(* create_key_pair was called with; wait_for_instance and create_ami get   *)
(* the instance id create_fleet_instance returned.                         *)
(***************************************************************************)
C34_StepsConsumeEarlierOutputs ==
    LET Gave(op, i, v) == \E k \in Events("ret", op) : k < i /\ log[k].val = <<v>>
    IN \A i \in DOMAIN log :
          log[i].ev = "call" =>
             CASE log[i].op = "get_vpc_from_subnet" -> log[i].val = <<"subnet-1">>
               [] log[i].op = "create_security_group" ->
                     Gave("get_vpc_from_subnet", i, log[i].val[1])
               [] log[i].op = "create_launch_template" ->
                     /\ Gave("lookup_source_ami", i, log[i].val[2])
                     /\ Gave("create_security_group", i, log[i].val[3])
                     /\ \E k \in Calls("create_key_pair") :
                           k < i /\ log[i].val[4] = log[k].val[1]
               [] log[i].op \in {"wait_for_instance", "create_ami"} ->
                     Gave("create_fleet_instance", i, log[i].val[1])
               [] OTHER -> TRUE

C34_Witness ==
    /\ \E i \in Calls("create_launch_template") :
          log[i].val = <<"orfmi-uid-a", "ami-src-2", "sg-2", "orfmi-uid-a">>
    /\ \E i \in Calls("create_security_group") : log[i].val[1] = "vpc-2"
    /\ \E i \in Calls("create_ami") : log[i].val[1] = "i-2"
    /\ \E i \in Calls("wait_for_instance") : log[i].val[1] = "i-2"

(***************************************************************************)
(* C35: cleanup only reads BuildState.  From the moment the finally clause *)
(* of build is entered, no step changes instance_id, sg_id, key_material   *)
(* or result of any BuildState; so the value build returns after cleanup   *)
(* is the value create_ami returned and the pipeline stored in result.     *)
(***************************************************************************)
C35_CleanupOnlyReads ==
    /\ [][(pc \in {"finally", "terminate_instance", "delete_launch_template",
                   "delete_key_pair", "delete_security_group", "_cleanup_return",
                   "end_finally", "check_result"}) => heap' = heap]_vars
    /\ [](outcome.kind = "returned" =>
             /\ outcome.val = <<TheState.result>>
             /\ \E i \in Events("ret", "create_ami") :
                   /\ log[i].val = outcome.val
                   /\ \E c \in Events("leave", "_cleanup") : i < c)

C35_Witness ==
    /\ Done
    /\ outcome = [kind |-> "returned", val |-> <<"ami-2">>]
    /\ Calls("terminate_instance") # {}
    /\ Calls("delete_security_group") # {}
    /\ TheState = [instance_id |-> "i-1", sg_id |-> "sg-2", key_material |-> "pem-1",
                   result |-> "ami-2"]

(***************************************************************************)
(* C36 (as claimed): create_ami is never invoked with an unset or empty    *)
(* instance id; if create_fleet_instance returned an empty id, then once   *)
(* build is over the pipeline has raised 'Instance ID not set after        *)
(* launch', create_ami was not invoked, result is unset and build raised.  *)
(* The code violates the part on the error raised: wait_for_instance and   *)
(* the setup script come before the check and may fail first.              *)
(***************************************************************************)
C36_EmptyInstanceIdRaises ==
    /\ \A i \in Calls("create_ami") : log[i].val[1] \notin {None, Empty}
    /\ (Done /\ \E i \in Events("ret", "create_fleet_instance") :
                    log[i].val[1] \in {None, Empty}) =>
          /\ \E j \in Events("unwind", "_run_build") :
                log[j].val = <<"RuntimeError", "Instance ID not set after launch">>
          /\ Calls("create_ami") = {}
          /\ TheState.result = None
          /\ outcome.kind = "raised"

(***************************************************************************)
(* C36 (amended): create_ami is never invoked with an unset or empty       *)
(* instance id; if create_fleet_instance returned an empty id, then once   *)
(* build is over the pipeline has failed before image creation, with       *)
(* 'Instance ID not set after launch' when wait_for_instance returned and  *)
(* the setup script was skipped or ran, and otherwise with the error of    *)
(* wait_for_instance, with 'Key material not set' or with the error of     *)
(* run_setup_script; create_ami was not invoked, result is unset and build *)
(* raised the pipeline's error.                                            *)
(***************************************************************************)
C36_EmptyInstanceIdFails ==
    /\ \A i \in Calls("create_ami") : log[i].val[1] \notin {None, Empty}
    /\ (Done /\ \E i \in Events("ret", "create_fleet_instance") :
                    log[i].val[1] \in {None, Empty}) =>
          /\ \E j \in Events("unwind", "_run_build") :
                /\ outcome = [kind |-> "raised", val |-> log[j].val]
                /\ IF log[j - 1].ev = "raise"
                   THEN log[j - 1].op \in {"wait_for_instance", "run_setup_script"}
                   ELSE IF script_exists /\ TheState.key_material \in {None, Empty}
                   THEN log[j].val = <<"RuntimeError", "Key material not set">>
                   ELSE log[j].val = <<"RuntimeError", "Instance ID not set after launch">>
          /\ Calls("create_ami") = {}
          /\ TheState.result = None

C36_Witness ==
    /\ Done
    /\ \E i \in Events("ret", "create_fleet_instance") : log[i].val = <<Empty>>
    /\ Events("ret", "wait_for_instance") # {}
    /\ Events("ret", "run_setup_script") # {}
    /\ outcome = [kind |-> "raised",
                  val |-> <<"RuntimeError", "Instance ID not set after launch">>]
    /\ Calls("create_ami") = {}

(***************************************************************************)
(* C37: if generate_unique_id or create_ec2_client fails at the start of   *)
(* build, build raises that error at once: no pipeline step and no cleanup *)
(* operation (terminate or delete) is invoked, _run_build and _cleanup are *)
(* not entered and no BuildState is created.                               *)
(***************************************************************************)
C37_EarlyFailureNoCleanup ==
    \A i \in Events("raise", "generate_unique_id") \cup Events("raise", "create_ec2_client") :
        /\ Done
        /\ outcome = [kind |-> "raised", val |-> log[i].val]
        /\ PipelineCalls = {}
        /\ CleanupCalls = {}
        /\ Events("enter", "_run_build") = {}
        /\ Events("enter", "_cleanup") = {}
        /\ DOMAIN heap = {}
        /\ created = {}

C37_Witness ==
    /\ Done
    /\ Events("ret", "generate_unique_id") # {}
    /\ Last = Ev("unwind", "build", <<"ClientError", "create_ec2_client">>)
    /\ outcome.kind = "raised"

(***************************************************************************)
(* C38: the two builder versions are equivalent.  Given the same           *)
(* collaborator outcomes, in which create_key_pair and                     *)
(* create_fleet_instance return non-empty values, orfmi/builder.py and     *)
(* ormi/builder.py have made the same collaborator calls in the same       *)
(* order with the same arguments up to the name prefix and got the same    *)
(* outcomes, hold the same BuildState, and, once both are over, have       *)
(* returned the same value or raised the same error.                       *)
(***************************************************************************)
C38_VersionsEquivalent ==
    NonEmptyKeyAndInstance =>
        /\ CollaboratorEvents("orfmi") = CollaboratorEvents("ormi")
        /\ heap["orfmi"] = heap["ormi"]
        /\ (Over("orfmi") /\ Over("ormi")) =>
              /\ outcome["orfmi"] = outcome["ormi"]
              /\ outcome["orfmi"].kind \in {"returned", "raised"}

C38_Witness ==
    /\ NonEmptyKeyAndInstance
    /\ Over("orfmi") /\ Over("ormi")
    /\ script_exists
    /\ outcome["ormi"] = [kind |-> "returned", val |-> <<"ami-2">>]
    /\ \E i \in DOMAIN log["orfmi"] :
          /\ log["orfmi"][i] = Ev("call", "delete_key_pair", <<"orfmi-uid-b">>)
          /\ log["ormi"][i] = Ev("call", "delete_key_pair", <<"ormi-uid-b">>)
    /\ \E i \in DOMAIN log["ormi"] : log["ormi"][i].op = "run_setup_script"
    /\ \E i \in DOMAIN log["ormi"] : log["ormi"][i].op = "delete_security_group"

====
